---------------------------- MODULE Spec2Model ----------------------------
(***************************************************************************)
(* aspen-bot: the per-user daily job registry (bot/scheduler.py and the    *)
(* rescheduling handler of bot/handlers.py), the firing coroutine          *)
(* fetch_and_notify_user behind request_semaphore, and the sqlite store of *)
(* database.py.                                                            *)
(*                                                                         *)
(* Instants are whole seconds counted from Monday 2026-03-02 00:00:00 UTC. *)
(* Strings the code parses (HH:MM inputs) are sequences of one-character   *)
(* strings, so that the regular expression and int() act on characters.    *)
(***************************************************************************)
EXTENDS Integers, Sequences, FiniteSets, TLC

VARIABLES
    users,              \* table users of users.db: a set of rows
    user_settings,      \* table user_settings: a set of rows
    encryption_key,     \* Database.encryption_key
    key_file,           \* the file encryption.key beside users.db
    connections,        \* sqlite3 connections with a method of Database under way
    schema,             \* the tables of users.db and the columns of each
    conversations,      \* registration_handler: per user, the state of the
                        \* conversation and context.user_data
    jobs,               \* app.job_queue: the registered jobs
    tasks,              \* fetch_and_notify_user coroutines, by <<user, firing>>
    request_semaphore,  \* asyncio.Semaphore._value
    now,                \* the clock (UTC instant)
    started,            \* setup_scheduler has run in this process
    last_call           \* ghost: the call just made (set_notification_time with
                        \* its reschedule_user_job, setup_scheduler, a method of
                        \* Database) with what it returned or replied, if any

vars == <<users, user_settings, encryption_key, key_file, connections, schema,
          conversations, jobs, tasks, request_semaphore, now, started, last_call>>

dbVars    == <<encryption_key, key_file, connections, schema, conversations>>
storeVars == <<users, user_settings, dbVars>>
gateVars  == <<tasks, request_semaphore>>

---------------------------------------------------------------------------
(* Bounds of the model *)

MaxFirings == 1        \* firings started in one behaviour (outside the burst)
MaxBurst == 4          \* users whose jobs fire in the burst specification

UserIds == {1, 2}      \* telegram ids that talk to the bot
BurstIds == 1 .. MaxBurst

None == [none |-> TRUE]       \* Python's None, where a dict or an object is expected
NoString == "None"            \* Python's None, where a string is expected
ValueError == 0 - 1           \* int() raised

---------------------------------------------------------------------------
(* The clock and the timezone database *)

HOUR == 60 * 60
MINUTE == HOUR \div 60
DAY == 24 * HOUR

\* Instant of <day> (0 = Mon 2026-03-02) at h:m:s UTC.
At(day, h, m, s) == day * DAY + h * HOUR + m * MINUTE + s

\* US daylight saving time starts on Sunday 2026-03-08 at 02:00 local time.
Zones ==
    { [name |-> "America/Chicago",  std |-> -6 * HOUR, dst |-> -5 * HOUR,
       change |-> At(6, 8, 0, 0)],
      [name |-> "America/New_York", std |-> -5 * HOUR, dst |-> -4 * HOUR,
       change |-> At(6, 7, 0, 0)] }

ZoneNames == {z.name : z \in Zones}

\* pytz.timezone(name): the zone, or None for UnknownTimeZoneError.
pytz_timezone(name) ==
    IF name \in ZoneNames THEN CHOOSE z \in Zones : z.name = name ELSE None

\* tz.utcoffset at a UTC instant.
utcoffset(tz, utc) == IF utc < tz.change THEN tz.std ELSE tz.dst

\* An aware datetime: the wall-clock reading and the UTC offset its tzinfo
\* carries.  datetime.now(tz) is tz.fromutc(utcnow).
datetime_now(tz, utc) ==
    [wall |-> utc + utcoffset(tz, utc), offset |-> utcoffset(tz, utc)]

\* datetime.replace(hour, minute, second, microsecond=0): same date, same tzinfo.
replace(dt, hour, minute, second) ==
    [dt EXCEPT !.wall = (dt.wall \div DAY) * DAY + hour * HOUR + minute * MINUTE + second]

\* dt + timedelta(days=n): wall-clock arithmetic, tzinfo kept as it is.
plus_days(dt, n) == [dt EXCEPT !.wall = dt.wall + n * DAY]

\* dt.astimezone(pytz.UTC) as an instant.
astimezone_utc(dt) == dt.wall - dt.offset

\* Comparison of aware datetimes is comparison of instants.
dt_le(a, b) == astimezone_utc(a) <= astimezone_utc(b)

\* datetime.time(hour, minute, second) of a UTC instant.
time_of(utc) ==
    [hour |-> (utc % DAY) \div HOUR, minute |-> (utc % HOUR) \div MINUTE,
     second |-> utc % MINUTE]

\* Local calendar day and wall clock of a UTC instant in a zone.
local_date(tz, utc) == (utc + utcoffset(tz, utc)) \div DAY
local_clock(tz, utc) == time_of(utc + utcoffset(tz, utc))

\* datetime.weekday(): Monday = 0 ... Sunday = 6.
weekday(wall) == (wall \div DAY) % 7

---------------------------------------------------------------------------
(* Strings that the code parses *)

Digits == <<"0", "1", "2", "3", "4", "5", "6", "7", "8", "9">>
IsDigit(c) == \E i \in 1 .. 10 : Digits[i] = c
DigitValue(c) == (CHOOSE i \in 1 .. 10 : Digits[i] = c) - 1

\* Faulty variant of time_pattern: r'^([0-2]?[0-9]):([0-5][0-9])$'
TimePatternAnyHour(s) ==
    /\ Len(s) \in {4, 5}
    /\ s[Len(s) - 2] = ":"
    /\ s[Len(s) - 1] \in {"0", "1", "2", "3", "4", "5"}
    /\ IsDigit(s[Len(s)])
    /\ IsDigit(s[Len(s) - 3])
    /\ Len(s) = 5 => s[1] \in {"0", "1", "2"}

\* re.match(r'^([01]?[0-9]|2[0-3]):([0-5][0-9])$', s) on a stripped input
time_pattern(s) ==
    LET minutes(i) == /\ s[i] \in {"0", "1", "2", "3", "4", "5"}
                      /\ IsDigit(s[i + 1])
    IN  \/ /\ Len(s) = 4
           /\ IsDigit(s[1])
           /\ s[2] = ":"
           /\ minutes(3)
        \/ /\ Len(s) = 5
           /\ \/ s[1] \in {"0", "1"} /\ IsDigit(s[2])
              \/ s[1] = "2" /\ s[2] \in {"0", "1", "2", "3"}
           /\ s[3] = ":"
           /\ minutes(4)

\* int(s) for a string of decimal digits
RECURSIVE int(_)
int(s) ==
    IF Len(s) = 0 \/ \E i \in 1 .. Len(s) : ~IsDigit(s[i]) THEN ValueError
    ELSE IF Len(s) = 1 THEN DigitValue(s[1])
    ELSE 10 * int(SubSeq(s, 1, Len(s) - 1)) + DigitValue(s[Len(s)])

\* hour, minute = map(int, notification_time.split(':')); None for ValueError
parse_hour_minute(notification_time) ==
    LET colons == {i \in 1 .. Len(notification_time) : notification_time[i] = ":"}
    IN  IF Cardinality(colons) # 1 THEN None
        ELSE LET c == CHOOSE i \in colons : TRUE
                 hour == int(SubSeq(notification_time, 1, c - 1))
                 minute == int(SubSeq(notification_time, c + 1, Len(notification_time)))
             IN  IF hour = ValueError \/ minute = ValueError THEN None
                 ELSE [hour |-> hour, minute |-> minute]

\* f"{hour:02d}:{minute:02d}"
format_time(hour, minute) ==
    << Digits[(hour \div 10) + 1], Digits[(hour % 10) + 1], ":",
       Digits[(minute \div 10) + 1], Digits[(minute % 10) + 1] >>

DEFAULT_TIME == <<"1", "5", ":", "0", "0">>      \* '15:00'
DEFAULT_TIMEZONE == "America/Chicago"

\* f"grade_check_user_{telegram_id}"
job_name_of(telegram_id) == <<"grade_check_user_", telegram_id>>

---------------------------------------------------------------------------
(* database.py.  The operators take the table they read or write and give
   the value read or the table written. *)

\* Fernet(self.encryption_key).encrypt(data)
encrypt(key, data) == [key |-> key, data |-> data]

\* Fernet(self.encryption_key).decrypt(token)
InvalidToken == "InvalidToken"
decrypt(key, token) == IF token.key = key THEN token.data ELSE InvalidToken

\* Fernet.generate_key(): the keys it may give
FernetKeys == {"key-1", "key-2"}

\* Faulty variant of get_or_create_encryption_key: the file is never read, a
\* key is generated at every start.
KeyRegenerated(file, generated) == generated

\* Database._get_or_create_encryption_key: the content of encryption.key when
\* the file exists, else the key generated (and written to the file).
\* file = NoString: there is no file.
get_or_create_encryption_key(file, generated) ==
    IF file # NoString THEN file ELSE generated

Row(table, telegram_id) == {r \in table : r.telegram_id = telegram_id}

\* A value of the columns created_at and last_updated: the datetime written
\* by the code.
timestamp(utcnow) == [utc |-> utcnow]

\* Mon 2026-03-02 00:00:00 UTC: the instant the accounts found at start were
\* stored.
Installed == At(0, 0, 0, 0)

\* The values a store written by older versions holds in these columns:
\* NULL, the empty text, the text '1' and the integer 1.
NULL == [null |-> TRUE]
LegacyTimestamps == {NULL, [text |-> ""], [text |-> "1"], [integer |-> 1]}

\* Database.get_user: the decrypted row as a dict, or None
get_user(table, telegram_id) ==
    LET found == Row(table, telegram_id)
    IN  IF found = {} THEN None
        ELSE LET user == CHOOSE r \in found : TRUE
                 username == decrypt(encryption_key, user.aspen_username)
                 password == decrypt(encryption_key, user.aspen_password)
             IN  IF username = InvalidToken \/ password = InvalidToken THEN None
                 ELSE [telegram_id |-> user.telegram_id,
                       aspen_username |-> username,
                       aspen_password |-> password,
                       notification_method |-> user.notification_method,
                       is_active |-> user.is_active,
                       created_at |-> user.created_at,
                       last_updated |-> user.last_updated]

\* Faulty variant of get_all_active_users: the WHERE clause is missing.
ActiveFlagIgnored(table) == {r.telegram_id : r \in table}

\* Database.get_all_active_users: the ids of the rows with is_active = 1
\* whose credentials decrypt ([] when any row fails to decrypt)
get_all_active_users(table) ==
    LET active == {r.telegram_id : r \in {x \in table : x.is_active}}
    IN  IF \E id \in active : get_user(table, id) = None THEN {} ELSE active

\* Database.get_user_settings
get_user_settings(table, telegram_id) ==
    LET found == Row(table, telegram_id)
    IN  IF found = {} THEN None ELSE CHOOSE r \in found : TRUE

\* settings.get('timezone', 'America/Chicago') if settings else 'America/Chicago'
timezone_or_default(settings) ==
    IF settings = None THEN DEFAULT_TIMEZONE ELSE settings.timezone

\* settings.get('notification_time', '15:00') if settings else '15:00'
time_or_default(settings) ==
    IF settings = None THEN DEFAULT_TIME ELSE settings.notification_time

\* Faulty variant of add_user: INSERT OR REPLACE, whether or not the row exists.
AddUserReplacesRow(table, telegram_id, aspen_username, aspen_password, utcnow) ==
    (table \ Row(table, telegram_id)) \cup
        {[telegram_id |-> telegram_id,
          aspen_username |-> encrypt(encryption_key, aspen_username),
          aspen_password |-> encrypt(encryption_key, aspen_password),
          notification_method |-> "telegram",
          is_active |-> TRUE,
          created_at |-> timestamp(utcnow),
          last_updated |-> timestamp(utcnow)]}

\* Database.add_user: UPDATE of the credentials of an existing row, else
\* INSERT; notification_method has its default, 'telegram'.
\* utcnow: datetime.utcnow() at the call.
add_user(table, telegram_id, aspen_username, aspen_password, utcnow) ==
    LET encrypted_username == encrypt(encryption_key, aspen_username)
        encrypted_password == encrypt(encryption_key, aspen_password)
        existing_user == Row(table, telegram_id)
    IN  IF existing_user # {}
        THEN {IF r.telegram_id = telegram_id
                 THEN [r EXCEPT !.aspen_username = encrypted_username,
                                !.aspen_password = encrypted_password,
                                !.notification_method = "telegram",
                                !.last_updated = timestamp(utcnow)]
                 ELSE r : r \in table}
        ELSE table \cup {[telegram_id |-> telegram_id,
                          aspen_username |-> encrypted_username,
                          aspen_password |-> encrypted_password,
                          notification_method |-> "telegram",
                          is_active |-> TRUE,
                          created_at |-> timestamp(utcnow),
                          last_updated |-> timestamp(utcnow)]}

\* INSERT OR REPLACE INTO user_settings
insert_or_replace(table, row) ==
    (table \ Row(table, row.telegram_id)) \cup {row}

\* Database.update_user_notification_time
update_user_notification_time(table, telegram_id, notification_time) ==
    LET current_settings == get_user_settings(table, telegram_id)
        timezone == timezone_or_default(current_settings)
    IN  insert_or_replace(table,
            [telegram_id |-> telegram_id, timezone |-> timezone,
             notification_time |-> notification_time])

\* Faulty variant of update_user_timezone: the current settings are not read
\* and the notification time is written as the default.
UpdateTimezoneResetsTime(table, telegram_id, timezone) ==
    insert_or_replace(table,
        [telegram_id |-> telegram_id, timezone |-> timezone,
         notification_time |-> DEFAULT_TIME])

\* Database.update_user_timezone
update_user_timezone(table, telegram_id, timezone) ==
    LET current_settings == get_user_settings(table, telegram_id)
        notification_time == time_or_default(current_settings)
    IN  insert_or_replace(table,
            [telegram_id |-> telegram_id, timezone |-> timezone,
             notification_time |-> notification_time])

\* Database.update_user_notification_method
update_user_notification_method(table, telegram_id, method, utcnow) ==
    {IF r.telegram_id = telegram_id
        THEN [r EXCEPT !.notification_method = method,
                       !.last_updated = timestamp(utcnow)]
        ELSE r : r \in table}

\* Database.deactivate_user: UPDATE users SET is_active = 0, last_updated = ?
deactivate_user(table, telegram_id, utcnow) ==
    {IF r.telegram_id = telegram_id
        THEN [r EXCEPT !.is_active = FALSE, !.last_updated = timestamp(utcnow)]
        ELSE r : r \in table}

\* Database.get_user_count: SELECT COUNT(*) FROM users WHERE is_active = 1
get_user_count(table) == Cardinality({r \in table : r.is_active})

\* The columns of the CREATE TABLE statements of init_database
UsersColumns ==
    {"telegram_id", "aspen_username", "aspen_password", "notification_method",
     "email", "is_active", "created_at", "last_updated"}
SettingsColumns ==
    {"telegram_id", "timezone", "notification_frequency", "notification_time"}
FeedbackColumns ==
    {"id", "user_id", "username", "first_name", "feedback_type", "message", "created_at"}

\* users.db as init_database leaves it
SCHEMA ==
    ("users" :> UsersColumns) @@ ("user_settings" :> SettingsColumns)
        @@ ("feedback" :> FeedbackColumns)

\* CREATE TABLE IF NOT EXISTS <table> (<columns>)
create_table_if_not_exists(db, table, columns) ==
    IF table \in DOMAIN db THEN db ELSE db @@ (table :> columns)

\* sqlite3.OperationalError: duplicate column name
OperationalError == [raised |-> "duplicate column name"]

\* ALTER TABLE <table> ADD COLUMN <column>: the schema, or the error sqlite
\* raises for a column the table has.
alter_table_add_column(db, table, column) ==
    IF column \in db[table] THEN OperationalError
    ELSE [db EXCEPT ![table] = @ \cup {column}]

\* Faulty variant of add_notification_time_column: no except clause, the
\* error of ALTER TABLE leaves init_database.
AddColumnErrorEscapes(db) ==
    LET altered == alter_table_add_column(db, "user_settings", "notification_time")
    IN  IF altered = OperationalError THEN [schema |-> db, raised |-> OperationalError]
        ELSE [schema |-> altered, raised |-> None]

\* Lines 88-96: ALTER TABLE user_settings ADD COLUMN notification_time inside
\* try / except sqlite3.OperationalError, which logs and goes on.
add_notification_time_column(db) ==
    LET altered == alter_table_add_column(db, "user_settings", "notification_time")
    IN  IF altered = OperationalError THEN [schema |-> db, raised |-> None]
        ELSE [schema |-> altered, raised |-> None]

\* Database.init_database, the statements that define tables: the schema it
\* leaves and the error that leaves it, if any.
init_database_schema(db) ==
    LET created == create_table_if_not_exists(
                       create_table_if_not_exists(db, "users", UsersColumns),
                       "user_settings", SettingsColumns)
        added == add_notification_time_column(created)
    IN  IF added.raised # None THEN added
        ELSE [schema |-> create_table_if_not_exists(added.schema, "feedback",
                                                    FeedbackColumns),
              raised |-> None]

\* The rows of user_settings after init_database: a row written before the
\* table had the column notification_time reads the DEFAULT of the column.
init_database_settings(table) ==
    {IF "notification_time" \in DOMAIN r THEN r
        ELSE [telegram_id |-> r.telegram_id, timezone |-> r.timezone,
              notification_time |-> DEFAULT_TIME] : r \in table}

\* Database.init_database, lines 98-108: the one UPDATE that follows the
\* CREATE TABLE IF NOT EXISTS statements,
\*   UPDATE users SET created_at = datetime('now') WHERE created_at IS NULL
\*     OR created_at = '' OR created_at = '1' OR created_at = 1
init_database(table, utcnow) ==
    {IF r.created_at \in LegacyTimestamps
        THEN [r EXCEPT !.created_at = timestamp(utcnow)]
        ELSE r : r \in table}

---------------------------------------------------------------------------
(* The job queue (python-telegram-bot JobQueue over APScheduler) *)

RANDOM_OFFSET_MAX == 30      \* random.randint(0, 30)

\* The smallest id no job of the queue has: the identity of a new job object.
FreshJobId(queue) ==
    CHOOSE n \in 1 .. Cardinality(queue) + 1 :
        /\ \A j \in queue : j.id # n
        /\ \A m \in 1 .. n - 1 : \E j \in queue : j.id = m

\* job_queue.run_daily(fetch_and_notify_user, time=, name=, data=,
\*                     job_kwargs={'next_run_time': scheduled_utc})
run_daily(queue, time, name, data, next_run_time) ==
    queue \cup {[id |-> FreshJobId(queue), name |-> name, time |-> time,
                 next_run_time |-> next_run_time, data |-> data]}

\* Faulty variant of get_jobs_by_name: every job of the queue is returned.
GetJobsOfAnyName(queue, name) == queue

\* job_queue.get_jobs_by_name(name)
get_jobs_by_name(queue, name) == {j \in queue : j.name = name}

\* Faulty variant of schedule_removal: the jobs found by name stay registered.
RemovalIgnored(queue, current_jobs) == queue

\* job.schedule_removal() for every job of current_jobs
schedule_removal(queue, current_jobs) == queue \ current_jobs

\* The cron trigger of run_daily: the first instant after <after> whose UTC
\* time of day is <time>.
next_fire_time(time, after) ==
    LET tod == time.hour * HOUR + time.minute * MINUTE + time.second
        today == (after \div DAY) * DAY + tod
    IN  IF today > after THEN today ELSE today + DAY

---------------------------------------------------------------------------
(* bot/scheduler.py: setup_scheduler *)

\* Faulty variant of setup_next_run: "<" where the code has "<=".
SetupNextRunStrict(notification_time, user_timezone, utcnow, random_offset_seconds) ==
    LET user_tz == pytz_timezone(user_timezone)
        hm == parse_hour_minute(notification_time)
    IN  IF user_tz = None \/ hm = None THEN None
        ELSE IF hm.hour > 23 \/ hm.minute > 59 THEN None
        ELSE LET local_now == datetime_now(user_tz, utcnow)
                 candidate == replace(local_now, hm.hour, hm.minute, random_offset_seconds)
                 scheduled_datetime ==
                     IF astimezone_utc(candidate) < astimezone_utc(local_now)
                     THEN plus_days(candidate, 1)
                     ELSE candidate
                 scheduled_utc == astimezone_utc(scheduled_datetime)
             IN  [job_time_utc |-> time_of(scheduled_utc),
                  scheduled_utc |-> scheduled_utc]

\* Lines 130-161: the first run and the daily UTC time of one user's job;
\* None when the body raises (unknown timezone, malformed time).
setup_next_run(notification_time, user_timezone, utcnow, random_offset_seconds) ==
    LET user_tz == pytz_timezone(user_timezone)
        hm == parse_hour_minute(notification_time)
    IN  IF user_tz = None \/ hm = None THEN None
        ELSE IF hm.hour > 23 \/ hm.minute > 59 THEN None
        ELSE LET local_now == datetime_now(user_tz, utcnow)
                 candidate == replace(local_now, hm.hour, hm.minute, random_offset_seconds)
                 scheduled_datetime ==
                     IF dt_le(candidate, local_now) THEN plus_days(candidate, 1)
                     ELSE candidate
                 scheduled_utc == astimezone_utc(scheduled_datetime)
             IN  [job_time_utc |-> time_of(scheduled_utc),
                  scheduled_utc |-> scheduled_utc]

\* The body of "for user in users" for one user: the queue with the user's job
\* added, or the queue as it was when the body raised.
setup_one_user(queue, telegram_id, utcnow, random_offset_seconds) ==
    LET user == get_user(users, telegram_id)
        settings == get_user_settings(user_settings, telegram_id)
        notification_time == time_or_default(settings)
        user_timezone == timezone_or_default(settings)
        run == setup_next_run(notification_time, user_timezone, utcnow,
                              random_offset_seconds)
    IN  IF run = None THEN queue
        ELSE run_daily(queue, run.job_time_utc, job_name_of(telegram_id), user,
                       run.scheduled_utc)

\* Faulty variant of setup_users: no try / except in the body of the loop, so
\* the error of one user ends the loop.
RECURSIVE SetupUsersStopsAtError(_, _, _, _)
SetupUsersStopsAtError(queue, ids, utcnow, offsets) ==
    IF ids = {} THEN queue
    ELSE LET id == CHOOSE i \in ids : \A k \in ids : i <= k
             settings == get_user_settings(user_settings, id)
         IN  IF setup_next_run(time_or_default(settings), timezone_or_default(settings),
                               utcnow, offsets[id]) = None
             THEN queue
             ELSE SetupUsersStopsAtError(setup_one_user(queue, id, utcnow, offsets[id]),
                                         ids \ {id}, utcnow, offsets)

\* The loop over get_all_active_users(), in the order of the SELECT (rowid).
RECURSIVE setup_users(_, _, _, _)
setup_users(queue, ids, utcnow, offsets) ==
    IF ids = {} THEN queue
    ELSE LET id == CHOOSE i \in ids : \A k \in ids : i <= k
         IN  setup_users(setup_one_user(queue, id, utcnow, offsets[id]),
                         ids \ {id}, utcnow, offsets)

\* Faulty variant of remove_all_jobs: the call fails (the except clause of
\* lines 112-113 logs a warning) and the jobs stay.
RemoveAllJobsFails(queue) == queue

\* scheduler.remove_all_jobs()
remove_all_jobs(queue) == {}

\* setup_scheduler(app): the queue it leaves
setup_scheduler(queue, utcnow, offsets) ==
    setup_users(remove_all_jobs(queue), get_all_active_users(users), utcnow, offsets)

---------------------------------------------------------------------------
(* bot/handlers.py: reschedule_user_job *)

\* Faulty variant of reschedule_next_run: replace() without second=, so the
\* seconds of the clock stay and the jitter drawn is lost.
RescheduleKeepsSeconds(notification_time, user_timezone, utcnow, random_offset_seconds) ==
    LET tz == pytz_timezone(user_timezone)
        hm == parse_hour_minute(notification_time)
    IN  IF tz = None \/ hm = None THEN None
        ELSE IF hm.hour > 23 \/ hm.minute > 59 THEN None
        ELSE LET local_now == datetime_now(tz, utcnow)
                 candidate == replace(local_now, hm.hour, hm.minute,
                                      local_now.wall % MINUTE)
                 scheduled_datetime ==
                     IF dt_le(candidate, local_now) THEN plus_days(candidate, 1)
                     ELSE candidate
                 scheduled_utc == astimezone_utc(scheduled_datetime)
             IN  [job_time |-> time_of(scheduled_utc),
                  scheduled_utc |-> scheduled_utc]

\* Lines 498-530: the same computation, as reschedule_user_job writes it.
reschedule_next_run(notification_time, user_timezone, utcnow, random_offset_seconds) ==
    LET tz == pytz_timezone(user_timezone)
        hm == parse_hour_minute(notification_time)
    IN  IF tz = None \/ hm = None THEN None
        ELSE IF hm.hour > 23 \/ hm.minute > 59 THEN None
        ELSE LET local_now == datetime_now(tz, utcnow)
                 candidate == replace(local_now, hm.hour, hm.minute, random_offset_seconds)
                 scheduled_datetime ==
                     IF dt_le(candidate, local_now) THEN plus_days(candidate, 1)
                     ELSE candidate
                 scheduled_utc == astimezone_utc(scheduled_datetime)
             IN  [job_time |-> time_of(scheduled_utc),
                  scheduled_utc |-> scheduled_utc]

\* Faulty variant of reschedule_user_job: the jobs found by name are removed
\* before the new run is computed.
RescheduleRemovesFirst(queue, settings_table, telegram_id, notification_time, utcnow, random_offset_seconds) ==
    LET user == get_user(users, telegram_id)
        user_timezone == timezone_or_default(get_user_settings(settings_table, telegram_id))
        run == reschedule_next_run(notification_time, user_timezone, utcnow,
                                   random_offset_seconds)
        job_name == job_name_of(telegram_id)
        removed == schedule_removal(queue, get_jobs_by_name(queue, job_name))
    IN  IF user = None \/ run = None THEN removed
        ELSE run_daily(removed, run.job_time, job_name, user, run.scheduled_utc)

\* reschedule_user_job(telegram_id, notification_time, context): the queue it
\* leaves.  settings is the table it reads the timezone from.
reschedule_user_job(queue, settings_table, telegram_id, notification_time, utcnow, random_offset_seconds) ==
    LET user == get_user(users, telegram_id)
        settings == get_user_settings(settings_table, telegram_id)
        user_timezone == timezone_or_default(settings)
        run == reschedule_next_run(notification_time, user_timezone, utcnow,
                                   random_offset_seconds)
        job_name == job_name_of(telegram_id)
        current_jobs == get_jobs_by_name(queue, job_name)
    IN  IF user = None THEN queue
        ELSE IF run = None THEN queue
        ELSE run_daily(schedule_removal(queue, current_jobs), run.job_time, job_name,
                       user, run.scheduled_utc)

\* reschedule_user_job when job_queue.run_daily raises at line 541: the jobs
\* found by name have been removed at lines 535-536, the exception goes to
\* "except Exception" at line 554, which logs it; nothing restores a job.
reschedule_user_job_run_daily_raises(queue, settings_table, telegram_id, notification_time, utcnow) ==
    LET user == get_user(users, telegram_id)
        settings == get_user_settings(settings_table, telegram_id)
        user_timezone == timezone_or_default(settings)
        run == reschedule_next_run(notification_time, user_timezone, utcnow, 0)
        current_jobs == get_jobs_by_name(queue, job_name_of(telegram_id))
    IN  IF user = None THEN queue
        ELSE IF run = None THEN queue
        ELSE schedule_removal(queue, current_jobs)

---------------------------------------------------------------------------
(* bot/scheduler.py: fetch_and_notify_user behind request_semaphore *)

REQUEST_DELAY_MIN == 30
REQUEST_DELAY_MAX == 60
MAX_CONCURRENT_REQUESTS == 3

\* Line 57: random.uniform(REQUEST_DELAY_MIN, REQUEST_DELAY_MAX), in whole
\* seconds
uniform(a, b) == a..b

\* The process's own clock: datetime.now() without a timezone is the wall
\* clock of the host, which runs on UTC.
server_utcoffset == 0 * HOUR

\* Faulty variant of locked: the last slot is handed out twice.
LockedOffByOne(value) == value < 0

\* asyncio.Semaphore: locked(), and the counter after acquire() / release()
locked(value) == value = 0
acquire(value) == value - 1
release(value) == value + 1

\* Faulty variant of aexit: acquire() and release() written out by hand, with
\* the release skipped when the block raised.
AexitSkipsOnError(value, outcome) ==
    IF outcome = "error" THEN value ELSE release(value)

\* "async with request_semaphore" leaves the block: __aexit__ releases the
\* slot, however the block ended.
aexit(value, outcome) == release(value)

\* What the ghost keeps of a call: the record when the specification observes
\* the handler, else nothing.
Recorded(observe, call) == IF observe THEN call ELSE None

\* The frame of one coroutine.  pc: "acquire" waits for the semaphore,
\* "sleep" is inside asyncio.sleep(delay), "send" awaits bot.send_message,
\* "done" has returned.  messages: what the coroutine is to send, in order;
\* pending and sent count those not yet and already handed to the Messenger.
\* due and outbox are not in the frame: the run time of the job that came due
\* [scheduled_time], recorded when the firing is observed and kept until it
\* is asked for, and the send_message calls that returned, with chat_id and
\* text.  sleep: the delay drawn for asyncio.sleep while the coroutine is in
\* it, with the instants the sleep began and ends when the firing is observed.
Task(pc, data, username, password, scraper, pending, sent, outcome, due, messages, outbox) ==
    [pc |-> pc, data |-> data, username |-> username, password |-> password,
     scraper |-> scraper, pending |-> pending, sent |-> sent, outcome |-> outcome,
     due |-> due, messages |-> messages, outbox |-> outbox, sleep |-> None]

\* Faulty variant of asyncio_sleep: the sleep returns at once.
SleepReturnsAtOnce(delay, observe, loop_time) ==
    IF observe THEN [delay |-> delay, since |-> loop_time, until |-> loop_time]
    ELSE [delay |-> delay]

\* Line 59: await asyncio.sleep(delay): the timer the event loop keeps
asyncio_sleep(delay, observe, loop_time) ==
    IF observe THEN [delay |-> delay, since |-> loop_time, until |-> loop_time + delay]
    ELSE [delay |-> delay]

\* The event loop resumes the coroutine when its timer has run out.
timer_done(sleep, loop_time) ==
    IF sleep = None THEN TRUE
    ELSE IF "until" \notin DOMAIN sleep THEN TRUE
    ELSE loop_time >= sleep.until

Holding(t) == tasks[t].pc \in {"sleep", "send"}

\* Coroutines are told apart by the user of their job and by the number of
\* the firing among that user's firings.
FreshTaskKey(telegram_id) ==
    <<telegram_id, 1 + Cardinality({k \in DOMAIN tasks : k[1] = telegram_id})>>

\* The coroutine returns or its exception is caught and logged: the frame is
\* gone, the outcome stays for the record.
Finished(task, outcome) ==
    Task("done", task.data, NoString, NoString, task.scraper, 0, task.sent, outcome,
         None, << >>, task.outbox)

\* Faulty variant of except_Exception: the coroutine sleeps and tries again.
ExceptRetries(task) == [task EXCEPT !.pc = "sleep"]

\* Faulty variant of except_Exception: the exception leaves the coroutine.
ExceptReraises(task) == Finished(task, "raised")

\* Lines 103-104: "except Exception as e" logs the error; nothing is raised
\* again, and the coroutine returns.
except_Exception(task) == Finished(task, "error")

\* Faulty variant of fresh_user_of: the credentials of the job's data are used.
CachedJobData(task) == task.data

\* Line 34: fresh_user = db.get_user(user_id)
fresh_user_of(task) == get_user(users, task.data.telegram_id)

\* Lines 64-65: context.job.scheduled_time if hasattr(context.job,
\* 'scheduled_time') else current_time.  A telegram.ext.Job has no attribute
\* scheduled_time, nor has the apscheduler job it hands unknown attributes to:
\* the value is the current time, whenever the job was due.
scheduled_time_of(due, current_time) == current_time

\* Lines 66-68: int((current_time - scheduled_time).total_seconds() / 60) if
\* current_time > scheduled_time else 0
delay_minutes(current_time, scheduled_time) ==
    IF current_time > scheduled_time
    THEN (current_time - scheduled_time) \div MINUTE ELSE 0

\* Line 79: the messages fetch_formatted_grades returns, n of them
fetch_formatted_grades(n) == [k \in 1..n |-> [text |-> "Daily Grade Update", part |-> k]]

\* Lines 92-99: the Delay Notice, when delay_minutes > 0
delay_notice(minutes) ==
    IF minutes > 0 THEN <<[text |-> "Delay Notice", part |-> minutes]>> ELSE << >>

\* Faulty variant of send_message_to: the message goes to the first chat.
SendToFirstChat(user_id, message) == [chat_id |-> 1, text |-> message]

\* context.bot.send_message(chat_id=user_id, text=message)
send_message_to(user_id, message) == [chat_id |-> user_id, text |-> message]

\* The scheduler finds job j due and starts its coroutine; the cron trigger
\* sets the job's next run.
Fire(j, cap, observe) ==
    /\ started
    /\ j \in jobs
    /\ now >= j.next_run_time
    /\ Cardinality(DOMAIN tasks) < cap
    /\ tasks' = tasks @@ (FreshTaskKey(j.data.telegram_id) :>
                  Task("acquire", j.data, NoString, NoString, None, 0, 0, NoString,
                       Recorded(observe, [scheduled_time |-> j.next_run_time]),
                       << >>, << >>))
    /\ jobs' = (jobs \ {j}) \cup
                  {[j EXCEPT !.next_run_time = next_fire_time(j.time, now)]}
    /\ last_call' = None
    /\ UNCHANGED <<storeVars, request_semaphore, now, started>>

\* Lines 28-58: the slot is acquired, the account is read, the weekday is
\* tested, and the coroutine suspends in asyncio.sleep.
\* store_ok = FALSE: the read of the store fails and get_user gives None.
\* delay: what random.uniform drew.
Enter(t, store_ok, delay, observe) ==
    /\ t \in DOMAIN tasks
    /\ tasks[t].pc = "acquire"
    /\ ~locked(request_semaphore)
    /\ LET task == tasks[t]
           fresh_user == IF store_ok THEN fresh_user_of(task) ELSE None
           current_time == now + server_utcoffset
       IN  IF fresh_user = None
           THEN /\ tasks' = [tasks EXCEPT ![t] = Finished(task, "no_user")]
                /\ request_semaphore' = aexit(acquire(request_semaphore), "no_user")
           ELSE IF weekday(current_time) >= 5
           THEN /\ tasks' = [tasks EXCEPT ![t] = Finished(task, "weekend")]
                /\ request_semaphore' = aexit(acquire(request_semaphore), "weekend")
           ELSE /\ tasks' = [tasks EXCEPT ![t] =
                       [Task("sleep", task.data, fresh_user.aspen_username,
                             fresh_user.aspen_password, None, 0, 0, NoString,
                             task.due, << >>, << >>)
                        EXCEPT !.sleep = asyncio_sleep(delay, observe, now)]]
                /\ request_semaphore' = acquire(request_semaphore)
    /\ last_call' = None
    /\ UNCHANGED <<storeVars, jobs, now, started>>

\* Lines 60-85: after the sleep the scraper is built, the settings are read,
\* GradeSource is called and the first message is handed to the Messenger.
\* fetch_ok = FALSE: fetch_formatted_grades raises.  n: the messages it gives.
AfterSleep(t, fetch_ok, n) ==
    /\ t \in DOMAIN tasks
    /\ tasks[t].pc = "sleep"
    /\ timer_done(tasks[t].sleep, now)
    /\ LET task == tasks[t]
           scraper == [username |-> task.username, password |-> task.password]
           settings == get_user_settings(user_settings, task.data.telegram_id)
           user_tz == pytz_timezone(timezone_or_default(settings))
           fetched == [task EXCEPT !.scraper = scraper]
           current_time == now + server_utcoffset
           scheduled_time == scheduled_time_of(task.due, current_time)
           messages == fetch_formatted_grades(n) \o
                          delay_notice(delay_minutes(current_time, scheduled_time))
       IN  IF user_tz = None \/ ~fetch_ok
           THEN /\ tasks' = [tasks EXCEPT ![t] =
                       except_Exception(IF user_tz = None THEN task ELSE fetched)]
                /\ request_semaphore' = aexit(request_semaphore, "error")
           ELSE IF messages = << >>
           THEN /\ tasks' = [tasks EXCEPT ![t] = Finished(fetched, "sent")]
                /\ request_semaphore' = aexit(request_semaphore, "sent")
           ELSE /\ tasks' = [tasks EXCEPT ![t] =
                       Task("send", task.data, task.username, task.password,
                            scraper, Len(messages), 0, NoString,
                            None, messages, << >>)]
                /\ UNCHANGED request_semaphore
    /\ last_call' = None
    /\ UNCHANGED <<storeVars, jobs, now, started>>

\* Lines 84-101: an awaited bot.send_message ends; the next message is handed
\* over, or the coroutine returns.  send_ok = FALSE: send_message raises.
SendDone(t, send_ok) ==
    /\ t \in DOMAIN tasks
    /\ tasks[t].pc = "send"
    /\ LET task == tasks[t]
           message == task.messages[task.sent + 1]
           delivered == [task EXCEPT !.sent = task.sent + 1,
                                     !.pending = task.pending - 1,
                                     !.outbox = Append(task.outbox,
                                         send_message_to(task.data.telegram_id, message))]
       IN  IF ~send_ok
           THEN /\ tasks' = [tasks EXCEPT ![t] = except_Exception(task)]
                /\ request_semaphore' = aexit(request_semaphore, "error")
           ELSE IF delivered.pending = 0
           THEN /\ tasks' = [tasks EXCEPT ![t] = Finished(delivered, "sent")]
                /\ request_semaphore' = aexit(request_semaphore, "sent")
           ELSE /\ tasks' = [tasks EXCEPT ![t] = delivered]
                /\ UNCHANGED request_semaphore
    /\ last_call' = None
    /\ UNCHANGED <<storeVars, jobs, now, started>>

---------------------------------------------------------------------------
(* bot/handlers.py: the handlers that write the store or the job queue *)

\* start_setup_flow: the settings table after the two default writes
start_setup_flow(table, telegram_id, random_time) ==
    update_user_notification_time(
        update_user_timezone(table, telegram_id, DEFAULT_TIMEZONE),
        telegram_id, random_time)

\* register_password: add_user with the collected credentials; a new
\* registration (not context.user_data['updating']) goes on to start_setup_flow
\* with the time generate_random_notification_time drew.  The dialogue does not
\* read the columns created_at and last_updated, and the instant written to
\* them here is not followed: it is the one the stored accounts carry.  AddUser
\* below writes the reading of the clock.
RegisterPassword(telegram_id, cred, updating, hour, minute) ==
    /\ started
    /\ users' = add_user(users, telegram_id, cred.username, cred.password, Installed)
    /\ user_settings' =
          IF updating THEN user_settings
          ELSE start_setup_flow(user_settings, telegram_id, format_time(hour, minute))
    /\ last_call' = None
    /\ UNCHANGED <<dbVars, jobs, gateVars, now, started>>

\* reschedule_user_job, lines 487 and 554-555: the whole body is inside
\* "try: ... except Exception as e: logger.error(...)", and the early return of
\* line 496 is a plain return: no exception reaches the caller.
reschedule_user_job_raises == FALSE

\* set_notification_time, lines 448-480: the message sent after the store write
set_notification_time_reply(success, raised) ==
    IF ~success THEN "Failed to update notification time in database"
    ELSE IF raised THEN "Time Updated but Scheduling Failed"
    ELSE "Notification Time Updated!"

\* The states a handler of a ConversationHandler returns (handlers.py 24-30)
END == "ConversationHandler.END"
SET_NOTIFICATION_TIME == "SET_NOTIFICATION_TIME"
SETUP_NOTIFICATION_TIME == "SETUP_NOTIFICATION_TIME"
REGISTER_USERNAME == "REGISTER_USERNAME"
REGISTER_PASSWORD == "REGISTER_PASSWORD"

\* A process that has just started: no conversation is under way and
\* context.user_data is empty for every user.
NoConversations == [u \in UserIds |-> [state |-> END, user_data |-> << >>]]

\* /register, the entry point of registration_handler (allow_reentry=True, so
\* in any state of the conversation): user_data is cleared; a user db.get_user
\* finds is told so and the conversation ends; else the username is asked for.
\* store_ok = FALSE: the read of the store fails and get_user gives None.
Register(telegram_id, store_ok) ==
    /\ started
    /\ LET existing == IF store_ok THEN get_user(users, telegram_id) ELSE None
           returned == IF existing # None THEN END ELSE REGISTER_USERNAME
       IN  /\ conversations' = [conversations EXCEPT ![telegram_id] =
                                   [state |-> returned, user_data |-> << >>]]
           /\ last_call' = [op |-> "register", telegram_id |-> telegram_id,
                            reply |-> IF existing # None
                                      THEN "You're already registered!"
                                      ELSE "Registration Process",
                            returned |-> returned]
    /\ UNCHANGED <<users, user_settings, encryption_key, key_file, connections, schema,
                   jobs, gateVars, now, started>>

\* register_username in the state REGISTER_USERNAME: the text is kept in
\* user_data; /register cleared user_data['updating'], so the password is
\* asked for in REGISTER_PASSWORD.
RegisterUsername(telegram_id, username) ==
    /\ started
    /\ conversations[telegram_id].state = REGISTER_USERNAME
    /\ conversations' = [conversations EXCEPT ![telegram_id] =
                            [state |-> REGISTER_PASSWORD,
                             user_data |-> [aspen_username |-> username]]]
    /\ last_call' = [op |-> "register_username", telegram_id |-> telegram_id,
                     returned |-> REGISTER_PASSWORD]
    /\ UNCHANGED <<users, user_settings, encryption_key, key_file, connections, schema,
                   jobs, gateVars, now, started>>

\* register_password as registration_handler calls it, in the state
\* REGISTER_PASSWORD: add_user with the username of user_data and the text,
\* then start_setup_flow, and the conversation ends.
RegisterPasswordOfRegistration(telegram_id, password, hour, minute) ==
    /\ started
    /\ conversations[telegram_id].state = REGISTER_PASSWORD
    /\ LET user_data == [aspen_username |->
                            conversations[telegram_id].user_data.aspen_username,
                        aspen_password |-> password]
       IN  /\ users' = add_user(users, telegram_id, user_data.aspen_username,
                                user_data.aspen_password, Installed)
           /\ user_settings' = start_setup_flow(user_settings, telegram_id,
                                                format_time(hour, minute))
           /\ conversations' = [conversations EXCEPT ![telegram_id] =
                                   [state |-> END, user_data |-> user_data]]
           /\ last_call' = [op |-> "register_password", telegram_id |-> telegram_id,
                            aspen_username |-> user_data.aspen_username,
                            aspen_password |-> user_data.aspen_password,
                            returned |-> END]
    /\ UNCHANGED <<encryption_key, key_file, connections, schema, jobs, gateVars, now,
                   started>>

\* The call recorded is a set_notification_time that stored the time and went
\* on to reschedule_user_job.
Rescheduled(call) ==
    call # None /\ call.op = "set_notification_time" /\ call.returned = END

\* set_notification_time: an input the pattern rejects changes nothing; else
\* the time is stored and reschedule_user_job is awaited.
SetNotificationTime(telegram_id, time_input, random_offset_seconds, observe) ==
    /\ started
    /\ IF ~time_pattern(time_input)
       THEN /\ UNCHANGED <<user_settings, jobs>>
            /\ last_call' =
                  IF observe
                  THEN [op |-> "set_notification_time", telegram_id |-> telegram_id,
                        notification_time |-> time_input,
                        reply |-> "Invalid time format!",
                        returned |-> SET_NOTIFICATION_TIME]
                  ELSE last_call
       ELSE /\ user_settings' =
                  update_user_notification_time(user_settings, telegram_id, time_input)
            /\ jobs' = reschedule_user_job(jobs, user_settings', telegram_id,
                                           time_input, now, random_offset_seconds)
            /\ last_call' = [op |-> "set_notification_time",
                             telegram_id |-> telegram_id,
                             notification_time |-> time_input,
                             random_offset_seconds |-> random_offset_seconds,
                             repeated |-> /\ Rescheduled(last_call)
                                          /\ last_call.telegram_id = telegram_id
                                          /\ last_call.notification_time = time_input,
                             reply |-> set_notification_time_reply(
                                          TRUE, reschedule_user_job_raises),
                             returned |-> END]
    /\ UNCHANGED <<users, dbVars, gateVars, now, started>>

\* set_notification_time with a valid time when job_queue.run_daily raises
\* inside reschedule_user_job: the time is stored, the reply is the
\* confirmation, as nothing is raised to set_notification_time.
SetNotificationTimeRunDailyRaises(telegram_id, time_input) ==
    /\ started
    /\ time_pattern(time_input)
    /\ user_settings' =
          update_user_notification_time(user_settings, telegram_id, time_input)
    /\ jobs' = reschedule_user_job_run_daily_raises(jobs, user_settings', telegram_id,
                                                    time_input, now)
    /\ last_call' = [op |-> "set_notification_time",
                     telegram_id |-> telegram_id,
                     notification_time |-> time_input,
                     random_offset_seconds |-> 0,
                     repeated |-> FALSE,
                     run_daily_raised |-> TRUE,
                     reply |-> set_notification_time_reply(
                                  TRUE, reschedule_user_job_raises),
                     returned |-> END]
    /\ UNCHANGED <<users, dbVars, gateVars, now, started>>

\* setup_notification_time_input: the time is validated and stored
SetupNotificationTimeInput(telegram_id, time_input, observe) ==
    /\ started
    /\ IF ~time_pattern(time_input)
       THEN /\ UNCHANGED user_settings
            /\ last_call' = Recorded(observe,
                  [op |-> "setup_notification_time_input", telegram_id |-> telegram_id,
                   notification_time |-> time_input,
                   reply |-> "Invalid time format!",
                   returned |-> SETUP_NOTIFICATION_TIME])
       ELSE /\ user_settings' =
                  update_user_notification_time(user_settings, telegram_id, time_input)
            /\ last_call' = Recorded(observe,
                  [op |-> "setup_notification_time_input", telegram_id |-> telegram_id,
                   notification_time |-> time_input,
                   reply |-> "Notification Time Set!",
                   returned |-> END])
    /\ UNCHANGED <<users, dbVars, jobs, gateVars, now, started>>

\* button_callback, query.data = "timezone_<timezone>"
TimezoneCallback(telegram_id, timezone, observe) ==
    /\ started
    /\ user_settings' = update_user_timezone(user_settings, telegram_id, timezone)
    /\ last_call' = Recorded(observe,
          [op |-> "button_callback", telegram_id |-> telegram_id,
           timezone |-> timezone, reply |-> "Timezone Updated!", returned |-> END])
    /\ UNCHANGED <<users, dbVars, jobs, gateVars, now, started>>

\* Database.delete_user: DELETE FROM <table> WHERE telegram_id = ?
delete_user(table, telegram_id) == table \ Row(table, telegram_id)

\* cursor.rowcount after the DELETE
rowcount(table, telegram_id) == Cardinality(Row(table, telegram_id))

\* Faulty variant of delete_user_returns: only the rowcount of the last
\* statement is looked at.
DeleteReturnsLastRowcount(affected_users, affected_settings) ==
    affected_settings > 0

\* Database.delete_user, line 401: return (affected_users + affected_settings) > 0
delete_user_returns(affected_users, affected_settings) ==
    (affected_users + affected_settings) > 0

\* button_callback, query.data = "confirm_delete"
ConfirmDelete(telegram_id) ==
    /\ started
    /\ users' = delete_user(users, telegram_id)
    /\ user_settings' = delete_user(user_settings, telegram_id)
    /\ last_call' = None
    /\ UNCHANGED <<dbVars, jobs, gateVars, now, started>>

\* setup_scheduler(app), at process start
SetupScheduler(offsets, observe) ==
    /\ jobs' = setup_scheduler(jobs, now, offsets)
    /\ started' = TRUE
    /\ last_call' = Recorded(observe, [op |-> "setup_scheduler"])
    /\ UNCHANGED <<storeVars, gateVars, now>>

\* db.add_user(telegram_id, username, password) called; it returns True.
AddUser(telegram_id, cred) ==
    /\ users' = add_user(users, telegram_id, cred.username, cred.password, now)
    /\ last_call' = [op |-> "add_user", telegram_id |-> telegram_id,
                     aspen_username |-> cred.username,
                     aspen_password |-> cred.password, returned |-> TRUE]
    /\ UNCHANGED <<user_settings, dbVars, jobs, gateVars, now, started>>

\* db.update_user_notification_time(telegram_id, notification_time) called
UpdateUserNotificationTime(telegram_id, notification_time) ==
    /\ user_settings' =
          update_user_notification_time(user_settings, telegram_id, notification_time)
    /\ last_call' = [op |-> "update_user_notification_time",
                     telegram_id |-> telegram_id,
                     notification_time |-> notification_time, returned |-> TRUE]
    /\ UNCHANGED <<users, dbVars, jobs, gateVars, now, started>>

\* db.update_user_timezone(telegram_id, timezone) called
UpdateUserTimezone(telegram_id, timezone) ==
    /\ user_settings' = update_user_timezone(user_settings, telegram_id, timezone)
    /\ last_call' = [op |-> "update_user_timezone", telegram_id |-> telegram_id,
                     timezone |-> timezone, returned |-> TRUE]
    /\ UNCHANGED <<users, dbVars, jobs, gateVars, now, started>>

\* db.delete_user(telegram_id) called
DeleteUser(telegram_id) ==
    /\ users' = delete_user(users, telegram_id)
    /\ user_settings' = delete_user(user_settings, telegram_id)
    /\ last_call' = [op |-> "delete_user", telegram_id |-> telegram_id,
                     returned |-> delete_user_returns(
                                     rowcount(users, telegram_id),
                                     rowcount(user_settings, telegram_id))]
    /\ UNCHANGED <<dbVars, jobs, gateVars, now, started>>

\* db.deactivate_user(telegram_id) called
DeactivateUser(telegram_id) ==
    /\ users' = deactivate_user(users, telegram_id, now)
    /\ last_call' = [op |-> "deactivate_user", telegram_id |-> telegram_id,
                     returned |-> rowcount(users, telegram_id) > 0]
    /\ UNCHANGED <<user_settings, dbVars, jobs, gateVars, now, started>>

\* db.update_user_notification_method(telegram_id, method) called
UpdateUserNotificationMethod(telegram_id, method) ==
    /\ users' = update_user_notification_method(users, telegram_id, method, now)
    /\ last_call' = [op |-> "update_user_notification_method",
                     telegram_id |-> telegram_id, method |-> method,
                     returned |-> rowcount(users, telegram_id) > 0]
    /\ UNCHANGED <<user_settings, dbVars, jobs, gateVars, now, started>>

---------------------------------------------------------------------------
(* database.py, statement by statement: the methods of Database as the   *)
(* sequences of SQL statements they execute, each with "WHERE telegram_id *)
(* = ?" or the telegram_id of its row, each atomic, and visible to every  *)
(* connection once executed.                                               *)

SELECT(table) == [kind |-> "SELECT", table |-> table]
UPDATE(table, set) == [kind |-> "UPDATE", table |-> table, set |-> set]
INSERT(table, row) == [kind |-> "INSERT", table |-> table, row |-> row]
INSERT_OR_REPLACE(table, row) == [kind |-> "INSERT OR REPLACE", table |-> table, row |-> row]
DELETE(table) == [kind |-> "DELETE", table |-> table]

\* Faulty variant of add_user_write: the UPDATE is split, one column a statement.
AddUserColumnByColumn(existing_user, call, utcnow) ==
    IF existing_user # {}
    THEN << UPDATE("users",
               [aspen_username |-> encrypt(encryption_key, call.aspen_username)]),
            UPDATE("users",
               [aspen_password |-> encrypt(encryption_key, call.aspen_password),
                notification_method |-> "telegram",
                last_updated |-> timestamp(utcnow)]) >>
    ELSE << INSERT("users",
               [telegram_id |-> call.telegram_id,
                aspen_username |-> encrypt(encryption_key, call.aspen_username),
                aspen_password |-> encrypt(encryption_key, call.aspen_password),
                notification_method |-> "telegram",
                is_active |-> TRUE,
                created_at |-> timestamp(utcnow),
                last_updated |-> timestamp(utcnow)]) >>

\* Database.add_user, lines 142-155: the statement after the SELECT, an UPDATE
\* when the SELECT found the row, else an INSERT
add_user_write(existing_user, call, utcnow) ==
    IF existing_user # {}
    THEN << UPDATE("users",
               [aspen_username |-> encrypt(encryption_key, call.aspen_username),
                aspen_password |-> encrypt(encryption_key, call.aspen_password),
                notification_method |-> "telegram",
                last_updated |-> timestamp(utcnow)]) >>
    ELSE << INSERT("users",
               [telegram_id |-> call.telegram_id,
                aspen_username |-> encrypt(encryption_key, call.aspen_username),
                aspen_password |-> encrypt(encryption_key, call.aspen_password),
                notification_method |-> "telegram",
                is_active |-> TRUE,
                created_at |-> timestamp(utcnow),
                last_updated |-> timestamp(utcnow)]) >>

\* The statements of a method of Database in the order it executes them;
\* fetched: what its SELECT gave, once it has run.
statements_of(call, fetched, utcnow) ==
    CASE call.op = "add_user" ->
            <<SELECT("users")>> \o add_user_write(fetched, call, utcnow)
      [] call.op = "get_user" -> <<SELECT("users")>>
      [] call.op = "get_user_settings" -> <<SELECT("user_settings")>>
      [] call.op = "update_user_notification_time" ->
            << SELECT("user_settings"),
               INSERT_OR_REPLACE("user_settings",
                  [telegram_id |-> call.telegram_id,
                   timezone |-> timezone_or_default(
                                   get_user_settings(fetched, call.telegram_id)),
                   notification_time |-> call.notification_time]) >>
      [] call.op = "update_user_timezone" ->
            << SELECT("user_settings"),
               INSERT_OR_REPLACE("user_settings",
                  [telegram_id |-> call.telegram_id,
                   timezone |-> call.timezone,
                   notification_time |-> time_or_default(
                                   get_user_settings(fetched, call.telegram_id))]) >>
      [] call.op = "delete_user" -> <<DELETE("users"), DELETE("user_settings")>>

\* "UPDATE ... SET col = ?, ..." on one row
set_columns(row, set) ==
    [col \in DOMAIN row |-> IF col \in DOMAIN set THEN set[col] ELSE row[col]]

\* sqlite3.IntegrityError: an INSERT of a telegram_id the table holds
IntegrityError(table, telegram_id, statement) ==
    statement.kind = "INSERT" /\ Row(table, telegram_id) # {}

\* cursor.execute(statement, (..., telegram_id)): the table afterwards
execute(table, telegram_id, statement) ==
    CASE statement.kind = "SELECT" -> table
      [] statement.kind = "UPDATE" ->
            {IF r.telegram_id = telegram_id THEN set_columns(r, statement.set) ELSE r :
                r \in table}
      [] statement.kind = "INSERT" ->
            IF IntegrityError(table, telegram_id, statement) THEN table
            ELSE table \cup {statement.row}
      [] statement.kind = "INSERT OR REPLACE" -> insert_or_replace(table, statement.row)
      [] statement.kind = "DELETE" -> delete_user(table, telegram_id)

\* What the method returns when its last statement has run.  affected: the
\* sum of cursor.rowcount over its DELETE statements.
returns(call, fetched, affected, raised) ==
    CASE raised -> [value |-> FALSE]
      [] call.op = "get_user" -> [value |-> get_user(fetched, call.telegram_id)]
      [] call.op = "get_user_settings" ->
            [value |-> get_user_settings(fetched, call.telegram_id)]
      [] call.op = "delete_user" -> [value |-> affected > 0]
      [] OTHER -> [value |-> TRUE]

\* A method of Database is called: sqlite3.connect(self.db_path).
Connect(c, call) ==
    /\ c \notin DOMAIN connections
    /\ connections' = connections @@
          (c :> [call |-> call, pc |-> 0, fetched |-> {}, affected |-> 0])
    /\ last_call' = None
    /\ UNCHANGED <<users, user_settings, encryption_key, key_file, schema,
                   conversations, jobs, gateVars, now, started>>

\* The method under way on connection c executes its next statement; after
\* the last one, or when the statement raises, it commits or not, closes the
\* connection and returns.
Execute(c) ==
    /\ c \in DOMAIN connections
    /\ LET conn == connections[c]
           call == conn.call
           statement == statements_of(call, conn.fetched, now)[conn.pc + 1]
           table == IF statement.table = "users" THEN users ELSE user_settings
           raised == IntegrityError(table, call.telegram_id, statement)
           fetched == IF statement.kind = "SELECT"
                      THEN Row(table, call.telegram_id) ELSE conn.fetched
           affected == IF statement.kind = "DELETE"
                       THEN conn.affected + rowcount(table, call.telegram_id)
                       ELSE conn.affected
           after == execute(table, call.telegram_id, statement)
           last == raised \/ conn.pc + 1 = Len(statements_of(call, fetched, now))
       IN  /\ users' = IF statement.table = "users" THEN after ELSE users
           /\ user_settings' = IF statement.table = "users" THEN user_settings ELSE after
           /\ connections' =
                 IF last
                 THEN [k \in DOMAIN connections \ {c} |-> connections[k]]
                 ELSE [connections EXCEPT ![c] =
                          [conn EXCEPT !.pc = conn.pc + 1, !.fetched = fetched,
                                       !.affected = affected]]
           /\ last_call' =
                 IF last
                 THEN [op |-> call.op, telegram_id |-> call.telegram_id, call |-> call,
                       connection |-> c,
                       returned |-> returns(call, fetched, affected, raised).value]
                 ELSE None
    /\ UNCHANGED <<encryption_key, key_file, schema, conversations, jobs, gateVars, now,
                   started>>

\* The process ends and a new one starts: Database() is constructed again
\* over the files the old process left; job queue, coroutines and semaphore
\* are those of the new process.  Database() is constructed twice, "db =
\* Database()" of bot/handlers.py and of bot/scheduler.py, one after the other
\* as the modules are imported; each reads encryption.key or generates a key
\* and writes the file, then runs init_database.  generated, regenerated: the
\* keys Fernet.generate_key() would give to the first and to the second.
Restart(generated, regenerated) ==
    LET handlers_key == get_or_create_encryption_key(key_file, generated)
        scheduler_key == get_or_create_encryption_key(handlers_key, regenerated)
        db_of_handlers == init_database_schema(schema)
        db_of_scheduler == init_database_schema(db_of_handlers.schema)
    IN  /\ encryption_key' = handlers_key
        /\ key_file' = scheduler_key
        /\ schema' = db_of_scheduler.schema
        /\ conversations' = NoConversations
        /\ users' = init_database(init_database(users, now), now)
        /\ user_settings' = init_database_settings(init_database_settings(user_settings))
        /\ connections' = << >>
        /\ jobs' = {}
        /\ tasks' = << >>
        /\ request_semaphore' = MAX_CONCURRENT_REQUESTS
        /\ started' = FALSE
        /\ last_call' = [op |-> "Database", handlers_key |-> handlers_key,
                         scheduler_key |-> scheduler_key,
                         raised |-> IF db_of_handlers.raised # None
                                    THEN db_of_handlers.raised
                                    ELSE db_of_scheduler.raised]
        /\ UNCHANGED now

\* encryption.key is removed from the directory of the store, by whatever
\* has access to it; users.db stays.
KeyFileLost ==
    /\ key_file # NoString
    /\ key_file' = NoString
    /\ last_call' = None
    /\ UNCHANGED <<users, user_settings, encryption_key, connections, schema,
                   conversations, jobs, gateVars, now, started>>

\* Time passes.
Tick(clock) ==
    /\ \E later \in clock : later > now /\ now' = later
    /\ last_call' = None
    /\ UNCHANGED <<storeVars, jobs, gateVars, started>>

---------------------------------------------------------------------------
(* The inputs *)

Alice == [username |-> "alice", password |-> "pw-alice"]
Bob == [username |-> "bob", password |-> "pw-bob"]
Credentials == {Alice, Bob}
Blank == [username |-> "", password |-> ""]

T1500 == <<"1", "5", ":", "0", "0">>
T2330 == <<"2", "3", ":", "3", "0">>
T0905 == <<"9", ":", "0", "5">>
T2400 == <<"2", "4", ":", "0", "0">>       \* the pattern rejects it
TimeInputs == {T1500, T2330, T0905, T2400}
T1560 == <<"1", "5", ":", "6", "0">>       \* the pattern rejects it
Tnoon == <<"n", "o", "o", "n">>            \* the pattern rejects it
BadTimeInputs == {T2400, T1560, Tnoon}

RandomHours == {15}        \* of random.randint(12, 19)
RandomMinutes == {0}       \* of random.choice([0, 15, 30, 45])

Jitters == {0, 12, RANDOM_OFFSET_MAX}      \* of random.randint(0, 30)

MessageCounts == {0, 1}    \* messages fetch_formatted_grades returns

Thu1410 == At(3, 20, 10, 0)     \* Thu 2026-03-05 14:10:00 in Chicago
Thu1500 == At(3, 21, 0, 0)      \* Thu 15:00:00 in Chicago
Thu1503 == At(3, 21, 3, 20)     \* Thu 15:03:20 in Chicago
Fri1500 == At(4, 21, 0, 0)      \* Fri 15:00:00 in Chicago
Fri1410 == At(4, 20, 10, 0)     \* Fri 2026-03-06 14:10:00 in Chicago
Fri1501 == At(4, 21, 0, 12)     \* Fri 15:00:12 in Chicago
Fri1502 == At(4, 21, 0, 40)     \* Fri 15:00:40 in Chicago
Sat1502 == At(5, 21, 0, 40)     \* Sat 15:00:40 in Chicago
Sat2350 == At(6, 5, 50, 0)      \* Sat 23:50:00 in Chicago, the eve of the change
Sun2320 == At(7, 4, 20, 0)      \* Sun 2026-03-08 23:20:00 in Chicago, Monday in UTC
Sun2331 == At(7, 4, 30, 40)     \* Sun 23:30:40 in Chicago, Monday in UTC
Mon1502 == At(7, 20, 0, 40)     \* Mon 2026-03-09 15:00:40 in Chicago (daylight time)

Clock == {Fri1410, Fri1502}

\* The stores a process can find at start: any of the users registered, with
\* no settings row yet.
StoredUsers(ids, key) ==
    { [telegram_id |-> id,
       aspen_username |-> encrypt(key, "alice"),
       aspen_password |-> encrypt(key, "pw-alice"),
       notification_method |-> "telegram",
       is_active |-> TRUE,
       created_at |-> timestamp(Installed),
       last_updated |-> timestamp(Installed)] : id \in ids }

\* The process starts: Database() has loaded the key and opened the store,
\* the semaphore is free, no job is registered.
Start(stores, clock) ==
    /\ key_file = "key-1"
    /\ encryption_key = get_or_create_encryption_key(key_file, "key-1")
    /\ \E stored \in stores : users = StoredUsers(stored, "key-1")
    /\ user_settings = {}
    /\ connections = << >>
    /\ schema = SCHEMA
    /\ conversations = NoConversations
    /\ jobs = {}
    /\ tasks = << >>
    /\ request_semaphore = MAX_CONCURRENT_REQUESTS
    /\ now \in clock
    /\ started = FALSE
    /\ last_call = None

---------------------------------------------------------------------------
(* The specifications *)

\* The steps of the program, for the users, inputs, clock readings and number
\* of firings given.  observe: the ghost records every handler's call.
Step(ids, creds, time_inputs, zones, offsets, clock, cap, observe) ==
    \/ \E f \in [ids -> offsets] : SetupScheduler(f, observe)
    \/ \E u \in ids, cred \in creds, updating \in BOOLEAN,
          hour \in RandomHours, minute \in RandomMinutes :
            RegisterPassword(u, cred, updating, hour, minute)
    \/ \E u \in ids, t \in time_inputs, offset \in offsets :
            SetNotificationTime(u, t, offset, observe)
    \/ \E u \in ids, t \in time_inputs : SetupNotificationTimeInput(u, t, observe)
    \/ \E u \in ids, tz \in zones : TimezoneCallback(u, tz, observe)
    \/ \E u \in ids : ConfirmDelete(u)
    \/ \E j \in jobs : Fire(j, cap, observe)
    \/ \E t \in DOMAIN tasks, store_ok \in BOOLEAN : Enter(t, store_ok, REQUEST_DELAY_MIN, FALSE)
    \/ \E t \in DOMAIN tasks, fetch_ok \in BOOLEAN, n \in MessageCounts :
            AfterSleep(t, fetch_ok, n)
    \/ \E t \in DOMAIN tasks, send_ok \in BOOLEAN : SendDone(t, send_ok)
    \/ Tick(clock)

\* Two users, every handler, one valid time and one credential.
Init == Start(SUBSET UserIds, Clock)
Next == Step(UserIds, {Alice}, {T1500, T2400}, ZoneNames, {0}, Clock, MaxFirings, FALSE)
Spec == Init /\ [][Next]_vars

\* One user, with the times, jitters and clock readings around the rollover,
\* the jitter window and the change to daylight time.
ClockOfTimes == {Fri1410, Fri1501, Sat2350, Mon1502}
InitClock == Start({{1}}, ClockOfTimes)
NextClock == Step({1}, {Alice}, TimeInputs, ZoneNames, Jitters, ClockOfTimes, MaxFirings, FALSE)
SpecClock == InitClock /\ [][NextClock]_vars

\* One user who changes credentials while jobs are registered and firing.
ClockOfCreds == {Fri1410, Fri1502, Sat1502}
InitCreds == Start({{}, {1}}, ClockOfCreds)
NextCreds == Step({1}, Credentials, {T1500, T2400}, ZoneNames, {0}, ClockOfCreds, MaxFirings + 1, FALSE)
SpecCreds == InitCreds /\ [][NextCreds]_vars

\* One user whose job comes due late on a Sunday evening of the user's zone,
\* when the clock of the host, on UTC, reads Monday.
ClockOfWeekend == {Sun2320, Sun2331}
InitWeekend == Start({{1}}, ClockOfWeekend)
NextWeekend == Step({1}, {Alice}, {T2330, T2400}, ZoneNames, {0}, ClockOfWeekend, MaxFirings, FALSE)
SpecWeekend == InitWeekend /\ [][NextWeekend]_vars

\* One user who changes the notification time while the job is firing; the
\* event loop runs every coroutine that can go on.
InitInFlight == Start({{1}}, Clock)
NextInFlight == Step({1}, {Alice}, {T1500, T2330}, ZoneNames, {0, 12}, Clock, MaxFirings, FALSE)
SpecInFlight ==
    /\ InitInFlight /\ [][NextInFlight]_vars
    /\ WF_vars(\E t \in DOMAIN tasks, store_ok \in BOOLEAN : Enter(t, store_ok, REQUEST_DELAY_MIN, FALSE))
    /\ WF_vars(\E t \in DOMAIN tasks, fetch_ok \in BOOLEAN, n \in MessageCounts :
                  AfterSleep(t, fetch_ok, n))
    /\ WF_vars(\E t \in DOMAIN tasks, send_ok \in BOOLEAN : SendDone(t, send_ok))

\* One user in dialogue with the bot: every handler's reply and returned state
\* is recorded; the time inputs include one with a one-digit hour and one the
\* pattern rejects, the timezones one that pytz does not know.
ZoneInputs == ZoneNames \cup {"Mars/Phobos"}
InitDialogue == Start({{}, {1}}, Clock)
NextDialogue == Step({1}, {Alice}, {T1500, T0905} \cup BadTimeInputs, ZoneInputs, {0}, Clock, MaxFirings, TRUE)
SpecDialogue == InitDialogue /\ [][NextDialogue]_vars

\* Two users, one of whom may store a timezone that pytz does not know, and
\* setup_scheduler run again at any time over the jobs that are registered.
InitRebuild == Start({UserIds}, Clock)
NextRebuild == Step(UserIds, {Alice}, {T1500}, {"Mars/Phobos"}, {0}, Clock, MaxFirings, TRUE)
SpecRebuild == InitRebuild /\ [][NextRebuild]_vars

\* The store alone: the methods of Database called in any order for two users,
\* with any string as timezone, and the process restarted between them.
InitStore == Start(SUBSET UserIds, {Fri1410})
NextStore ==
    \/ \E u \in UserIds, cred \in Credentials \cup {Blank} : AddUser(u, cred)
    \/ \E u \in UserIds, t \in {T1500, T2330} : UpdateUserNotificationTime(u, t)
    \/ \E u \in UserIds, tz \in ZoneInputs : UpdateUserTimezone(u, tz)
    \/ \E u \in UserIds : DeleteUser(u)
    \/ \E generated, regenerated \in FernetKeys : Restart(generated, regenerated)
SpecStore == InitStore /\ [][NextStore]_vars

\* A burst: the jobs of MaxBurst registered users come due together.
ClockOfBurst == {Fri1410, Fri1502}
InitBurst == Start({BurstIds}, ClockOfBurst)
NextBurst ==
    \/ \E f \in [BurstIds -> {0}] : SetupScheduler(f, FALSE)
    \/ \E j \in jobs : Fire(j, MaxBurst, FALSE)
    \/ \E t \in DOMAIN tasks, store_ok \in BOOLEAN : Enter(t, store_ok, REQUEST_DELAY_MIN, FALSE)
    \/ \E t \in DOMAIN tasks, fetch_ok \in BOOLEAN, n \in MessageCounts :
            AfterSleep(t, fetch_ok, n)
    \/ \E t \in DOMAIN tasks, send_ok \in BOOLEAN : SendDone(t, send_ok)
    \/ Tick(ClockOfBurst)
SpecBurst == InitBurst /\ [][NextBurst]_vars

\* The event loop runs every coroutine that can go on: a free slot is taken by
\* a waiting coroutine, a sleep ends, an awaited send returns or raises.
SpecBurstFair ==
    /\ SpecBurst
    /\ WF_vars(\E t \in DOMAIN tasks, store_ok \in BOOLEAN : Enter(t, store_ok, REQUEST_DELAY_MIN, FALSE))
    /\ WF_vars(\E t \in DOMAIN tasks, fetch_ok \in BOOLEAN, n \in MessageCounts :
                  AfterSleep(t, fetch_ok, n))
    /\ WF_vars(\E t \in DOMAIN tasks, send_ok \in BOOLEAN : SendDone(t, send_ok))

\* The accounts: add_user, deactivate_user and delete_user called in any
\* order for two users while time passes, and setup_scheduler run between
\* them.
ClockOfAccounts == {Fri1410, Fri1502}
InitAccounts == Start({{1}, UserIds}, {Fri1410})
NextAccounts ==
    \/ \E u \in UserIds, cred \in {Alice, Bob} : AddUser(u, cred)
    \/ \E u \in UserIds : DeactivateUser(u)
    \/ \E u \in UserIds : DeleteUser(u)
    \/ \E f \in [UserIds -> {0}] : SetupScheduler(f, TRUE)
    \/ Tick(ClockOfAccounts)
SpecAccounts == InitAccounts /\ [][NextAccounts]_vars

\* The key file: an installation with no encryption.key and an empty store;
\* the process is started, stores accounts, and is started again, any number
\* of times.  Nothing but Database() writes the key file.
Installation ==
    /\ key_file = NoString
    /\ encryption_key = NoString
    /\ users = {}
    /\ user_settings = {}
    /\ connections = << >>
    /\ schema = << >>
    /\ conversations = NoConversations
    /\ jobs = {}
    /\ tasks = << >>
    /\ request_semaphore = MAX_CONCURRENT_REQUESTS
    /\ now = Fri1410
    /\ started = FALSE
    /\ last_call = None
Running == encryption_key # NoString
NextKeys ==
    \/ \E generated, regenerated \in FernetKeys : Restart(generated, regenerated)
    \/ \E u \in UserIds, cred \in Credentials : Running /\ AddUser(u, cred)
    \/ \E u \in UserIds : Running /\ DeactivateUser(u)
    \/ \E u \in UserIds : Running /\ DeleteUser(u)
SpecKeys == Installation /\ [][NextKeys]_vars

\* The same, with the key file lost at any time.
NextKeyLost == NextKeys \/ KeyFileLost
SpecKeyLost == Installation /\ [][NextKeyLost]_vars

\* Firings followed from the instant the job is due to the last message: two
\* users with the default settings, whose jobs are due at 15:00:00 in Chicago
\* on Thursday and again on Friday; a coroutine may wait for its slot and
\* sleep until 15:03:20, and GradeSource gives up to MaxMessages messages.
MaxMessages == 2
ClockOfFiring == {Thu1410, Thu1500, Thu1503, Fri1500}
InitFiring == Start({UserIds}, {Thu1410})
NextFiring ==
    \/ \E f \in [UserIds -> {0}] : SetupScheduler(f, TRUE)
    \/ \E j \in jobs : Fire(j, MaxFirings + 1, TRUE)
    \/ \E t \in DOMAIN tasks, store_ok \in BOOLEAN : Enter(t, store_ok, REQUEST_DELAY_MIN, FALSE)
    \/ \E t \in DOMAIN tasks, fetch_ok \in BOOLEAN, n \in 0..MaxMessages :
            AfterSleep(t, fetch_ok, n)
    \/ \E t \in DOMAIN tasks, send_ok \in BOOLEAN : SendDone(t, send_ok)
    \/ Tick(ClockOfFiring)
SpecFiring == InitFiring /\ [][NextFiring]_vars

\* A store written by older versions of the program: the account of user 1,
\* with any of the legacy values or a datetime in created_at and in
\* last_updated.
LegacyStores ==
    { { [telegram_id |-> 1,
         aspen_username |-> encrypt("key-1", "alice"),
         aspen_password |-> encrypt("key-1", "pw-alice"),
         notification_method |-> "telegram",
         is_active |-> TRUE,
         created_at |-> created_at,
         last_updated |-> last_updated] } :
      created_at \in LegacyTimestamps \cup {timestamp(Installed)},
      last_updated \in LegacyTimestamps \cup {timestamp(Installed)} }

\* The process has started over such a store: Database() has loaded the key
\* and run init_database.  Then the methods that write the table users are
\* called in any order, time passes and the process is started again.
NotificationMethods == {"email"}
InitLegacy ==
    /\ key_file = "key-1"
    /\ encryption_key = get_or_create_encryption_key(key_file, "key-1")
    /\ now = Fri1410
    /\ \E stored \in LegacyStores : users = init_database(stored, now)
    /\ user_settings = {}
    /\ connections = << >>
    /\ schema = SCHEMA
    /\ conversations = NoConversations
    /\ jobs = {}
    /\ tasks = << >>
    /\ request_semaphore = MAX_CONCURRENT_REQUESTS
    /\ started = FALSE
    /\ last_call = None
NextLegacy ==
    \/ \E u \in UserIds, cred \in {Alice, Bob} : AddUser(u, cred)
    \/ \E u \in UserIds, method \in NotificationMethods :
            UpdateUserNotificationMethod(u, method)
    \/ \E u \in UserIds : DeactivateUser(u)
    \/ \E generated, regenerated \in FernetKeys : Restart(generated, regenerated)
    \/ Tick(ClockOfAccounts)
SpecLegacy == InitLegacy /\ [][NextLegacy]_vars

\* The store under statement-level interleaving: two connections, each with
\* a method of Database under way, the second only on user 1; every
\* statement of one may run between two statements of the other.
ConnectionIds == {1, 2}
Calls(ids) ==
    [op : {"add_user"}, telegram_id : ids,
     aspen_username : {"bob"}, aspen_password : {"pw-bob"}]
      \cup [op : {"get_user", "get_user_settings", "delete_user"}, telegram_id : ids]
      \cup [op : {"update_user_notification_time"}, telegram_id : ids,
             notification_time : {T2330}]
      \cup [op : {"update_user_timezone"}, telegram_id : ids,
             timezone : {"America/New_York"}]
InitStatements == Start({{1}, UserIds}, {Fri1410})
NextStatements ==
    \/ \E call \in Calls(UserIds) : Connect(1, call)
    \/ \E call \in Calls({1}) : Connect(2, call)
    \/ \E c \in ConnectionIds : Execute(c)
SpecStatements == InitStatements /\ [][NextStatements]_vars

\* One user who changes the notification time, with job_queue.run_daily
\* raising at any of the calls.
InitRegistry == Start({{1}}, Clock)
NextRegistry ==
    \/ Step({1}, {Alice}, {T1500, T2330}, ZoneNames, {0}, Clock, MaxFirings, TRUE)
    \/ \E t \in {T1500, T2330} : SetNotificationTimeRunDailyRaises(1, t)
SpecRegistry == InitRegistry /\ [][NextRegistry]_vars

\* The firings of Thursday and of Saturday, with the timer of asyncio.sleep
\* followed: the delay drawn is the least or the greatest of the interval,
\* and the clock is read when the job is due, 30 and 60 seconds later, and at
\* the weekend.
Thu150030 == At(3, 21, 0, 30)   \* Thu 15:00:30 in Chicago
Thu150100 == At(3, 21, 1, 0)    \* Thu 15:01:00 in Chicago
Delays == {REQUEST_DELAY_MIN, REQUEST_DELAY_MAX}
ClockOfDelay == {Thu1410, Thu1500, Thu150030, Thu150100, Sat1502}
InitDelay == Start({UserIds}, {Thu1410})
NextDelay ==
    \/ \E f \in [UserIds -> {0}] : SetupScheduler(f, FALSE)
    \/ \E j \in jobs : Fire(j, MaxFirings + 1, FALSE)
    \/ \E t \in DOMAIN tasks, store_ok \in BOOLEAN, delay \in Delays :
            Enter(t, store_ok, delay, TRUE)
    \/ \E t \in DOMAIN tasks, fetch_ok \in BOOLEAN, n \in MessageCounts :
            AfterSleep(t, fetch_ok, n)
    \/ \E t \in DOMAIN tasks, send_ok \in BOOLEAN : SendDone(t, send_ok)
    \/ Tick(ClockOfDelay)
SpecDelay == InitDelay /\ [][NextDelay]_vars

\* One user whose job is registered by setup_scheduler and by
\* reschedule_user_job in turn, with the jitter each of them drew, around the
\* rollover and the change to daylight time.
PathInputs == TimeInputs \cup {T1560, Tnoon}
InitPaths == Start({{1}}, ClockOfTimes)
NextPaths ==
    \/ \E f \in [{1} -> Jitters] : SetupScheduler(f, TRUE)
    \/ \E t \in PathInputs, offset \in Jitters : SetNotificationTime(1, t, offset, TRUE)
    \/ \E tz \in ZoneInputs : TimezoneCallback(1, tz, FALSE)
    \/ Tick(ClockOfTimes)
SpecPaths == InitPaths /\ [][NextPaths]_vars

\* users.db as a process can find it: no file yet, the file of an older
\* version whose table user_settings has no column notification_time, with
\* or without the table feedback, or the file of this version; with the
\* rows of such a file.  The process is started, the methods of Database are
\* called, and the process is started again.
SchemasFound ==
    { << >>,
      ("users" :> UsersColumns)
          @@ ("user_settings" :> SettingsColumns \ {"notification_time"}),
      ("users" :> UsersColumns) @@ ("user_settings" :> SettingsColumns),
      SCHEMA }
SettingsFound(db) ==
    IF "user_settings" \notin DOMAIN db THEN {{}}
    ELSE IF "notification_time" \in db["user_settings"]
    THEN {{}, {[telegram_id |-> 1, timezone |-> "America/New_York",
                notification_time |-> T2330]}}
    ELSE {{}, {[telegram_id |-> 1, timezone |-> "America/New_York"]}}
InitSchema ==
    /\ key_file = "key-1"
    /\ encryption_key = NoString
    /\ now = Fri1410
    /\ schema \in SchemasFound
    /\ conversations = NoConversations
    /\ users \in (IF "users" \in DOMAIN schema THEN LegacyStores \cup {{}} ELSE {{}})
    /\ user_settings \in SettingsFound(schema)
    /\ connections = << >>
    /\ jobs = {}
    /\ tasks = << >>
    /\ request_semaphore = MAX_CONCURRENT_REQUESTS
    /\ started = FALSE
    /\ last_call = None
NextSchema ==
    \/ \E generated, regenerated \in FernetKeys : Restart(generated, regenerated)
    \/ \E u \in UserIds : Running /\ AddUser(u, Bob)
    \/ \E u \in UserIds : Running /\ UpdateUserNotificationTime(u, T0905)
    \/ \E u \in UserIds : Running /\ UpdateUserTimezone(u, "America/Chicago")
    \/ \E u \in UserIds : Running /\ DeleteUser(u)
    \/ Tick(ClockOfAccounts)
SpecSchema == InitSchema /\ [][NextSchema]_vars

\* The conversation of /register for two users, one of them registered at
\* the start: the command at any time, the username and the password when
\* the conversation asks for them, the account deleted in between.
Usernames == {"alice", "bob"}
Passwords == {"pw-alice", "pw-bob"}
InitRegister == Start({{1}}, {Fri1410})
NextRegister ==
    \/ \E f \in [UserIds -> {0}] : SetupScheduler(f, FALSE)
    \/ \E u \in UserIds, store_ok \in BOOLEAN : Register(u, store_ok)
    \/ \E u \in UserIds, username \in Usernames : RegisterUsername(u, username)
    \/ \E u \in UserIds, password \in Passwords,
          hour \in RandomHours, minute \in RandomMinutes :
            RegisterPasswordOfRegistration(u, password, hour, minute)
    \/ \E u \in UserIds : ConfirmDelete(u)
SpecRegister == InitRegister /\ [][NextRegister]_vars

---------------------------------------------------------------------------
(* The properties *)

Holders == {t \in DOMAIN tasks : Holding(t)}
Ended(outcome) == {t \in DOMAIN tasks : tasks[t].pc = "done" /\ tasks[t].outcome = outcome}

JobsOf(queue, telegram_id) == get_jobs_by_name(queue, job_name_of(telegram_id))
JobOf(queue, telegram_id) == CHOOSE j \in JobsOf(queue, telegram_id) : TRUE
Registered(telegram_id) == get_user(users, telegram_id) # None
TimezoneOf(telegram_id) ==
    pytz_timezone(timezone_or_default(get_user_settings(user_settings, telegram_id)))
FireStep == DOMAIN tasks' # DOMAIN tasks

\* C1: at every instant, however the coroutines of a burst of firings
\* interleave, at most 3 of them are inside "async with request_semaphore".
C1_AtMostThreeInside == Cardinality(Holders) <= 3

\* Three coroutines hold the three slots and a fourth waits for one.
C1_SlotsFullOneWaiting ==
    /\ Cardinality(Holders) = 3
    /\ \E t \in DOMAIN tasks : tasks[t].pc = "acquire"

C3_ActiveAccountHasOneJob ==
    started => \A telegram_id \in get_all_active_users(users) :
                   Cardinality(JobsOf(jobs, telegram_id)) = 1

\* The window of the jitter: the user's local clock reads HH:MM:00 .. HH:MM:29
\* for the HH:MM of the call.
InJitterWindow(telegram_id, notification_time) ==
    LET hm == parse_hour_minute(notification_time)
        clock == local_clock(TimezoneOf(telegram_id), now)
    IN  /\ clock.hour = hm.hour
        /\ clock.minute = hm.minute
        /\ clock.second < RANDOM_OFFSET_MAX

\* A step that is the second of two calls reschedule_user_job(userId, t) in
\* succession, for a registered user.
SecondCall ==
    /\ Rescheduled(last_call)
    /\ Rescheduled(last_call')
    /\ last_call'.telegram_id = last_call.telegram_id
    /\ last_call'.notification_time = last_call.notification_time
    /\ Registered(last_call.telegram_id)

\* The fire instants of the user's job before and after the step differ by
\* the difference of the two jitters drawn, and by <days> days.
FireInstantsDiffer(days) ==
    LET telegram_id == last_call.telegram_id
        jitter == last_call'.random_offset_seconds - last_call.random_offset_seconds
    IN  JobOf(jobs', telegram_id).next_run_time
            - JobOf(jobs, telegram_id).next_run_time = jitter + days * DAY

\* C4, as stated: two calls reschedule_user_job(userId, t) in succession leave
\* exactly one job of the user, and the second fire instant differs from the
\* first only in the jitter seconds.
C4_SecondCallOnlyJitter ==
    [][SecondCall => /\ Cardinality(JobsOf(jobs', last_call.telegram_id)) = 1
                     /\ FireInstantsDiffer(0)]_vars

\* C4, amended: two calls reschedule_user_job(userId, t) in succession leave
\* exactly one job of the user; the second fire instant differs from the first
\* only in the jitter seconds when the local clock is outside the jitter
\* window of t, and inside that window it may also be a day earlier or later.
C4_SecondCallJitterOrDay ==
    [][SecondCall =>
          /\ Cardinality(JobsOf(jobs', last_call.telegram_id)) = 1
          /\ \/ FireInstantsDiffer(0)
             \/ /\ InJitterWindow(last_call.telegram_id, last_call.notification_time)
                /\ FireInstantsDiffer(1) \/ FireInstantsDiffer(0 - 1)]_vars

\* The same reschedule has just been made twice in succession, with the local
\* clock outside the jitter window, and the user has one job.
C4_CalledTwice ==
    /\ Rescheduled(last_call)
    /\ last_call.repeated
    /\ Registered(last_call.telegram_id)
    /\ ~InJitterWindow(last_call.telegram_id, last_call.notification_time)
    /\ Cardinality(JobsOf(jobs, last_call.telegram_id)) = 1

\* C5: a firing reads the account from the store when it starts and builds
\* the scraper from the credentials read, never from the data of its job.
C5_FiringUsesStoredCredentials ==
    [][\A t \in DOMAIN tasks :
          /\ (tasks[t].pc = "acquire" /\ tasks'[t].pc = "sleep")
             => /\ Registered(t[1])
                /\ tasks'[t].username = get_user(users, t[1]).aspen_username
                /\ tasks'[t].password = get_user(users, t[1]).aspen_password
          /\ (tasks[t].pc = "sleep" /\ tasks'[t].scraper # None)
             => tasks'[t].scraper = [username |-> tasks[t].username,
                                     password |-> tasks[t].password]]_vars

\* A firing has fetched with credentials that differ from those in the data
\* of its job: the account was updated after the job was registered.
C5_FetchedWithUpdatedCredentials ==
    \E t \in DOMAIN tasks :
        /\ tasks[t].scraper # None
        /\ tasks[t].scraper.username # tasks[t].data.aspen_username
        /\ tasks[t].scraper.password # tasks[t].data.aspen_password

\* C6: for every valid time, timezone and clock reading, the fire instant of
\* a job created by setup_scheduler or reschedule_user_job is strictly after
\* the clock reading and has a seconds component within 0 .. 30.
C6_FireInstantAfterNow ==
    [][~FireStep => \A j \in jobs' \ jobs :
                       /\ j.next_run_time > now
                       /\ time_of(j.next_run_time).second \in 0 .. 30]_vars

\* A reschedule whose candidate of today fell exactly on the clock reading
\* has given a job for tomorrow.
C6_CandidateOnTheClock ==
    /\ Rescheduled(last_call)
    /\ Registered(last_call.telegram_id)
    /\ LET clock == local_clock(TimezoneOf(last_call.telegram_id), now)
           hm == parse_hour_minute(last_call.notification_time)
       IN  /\ clock.hour = hm.hour /\ clock.minute = hm.minute
           /\ clock.second = last_call.random_offset_seconds
    /\ JobOf(jobs, last_call.telegram_id).next_run_time = now + DAY

\* C7: after reschedule_user_job, the local date of the fire instant is the
\* day after the local date of the clock reading when today's candidate
\* (HH:MM and the jitter second, in the user's timezone) is at or before the
\* clock reading, and the local date of the clock reading otherwise.
C7_RolloverByOneLocalDay ==
    Rescheduled(last_call) /\ Registered(last_call.telegram_id) =>
        LET telegram_id == last_call.telegram_id
            tz == TimezoneOf(telegram_id)
            hm == parse_hour_minute(last_call.notification_time)
            clock == local_clock(tz, now)
            at_or_before ==
                \/ hm.hour < clock.hour
                \/ hm.hour = clock.hour /\ hm.minute < clock.minute
                \/ /\ hm.hour = clock.hour /\ hm.minute = clock.minute
                   /\ last_call.random_offset_seconds <= clock.second
        IN  local_date(tz, JobOf(jobs, telegram_id).next_run_time)
                = local_date(tz, now) + (IF at_or_before THEN 1 ELSE 0)

\* C8: a firing registers the next occurrence from the settings current at
\* the firing: after the step in which a registered user's job fires, the
\* job's next run is at the stored notification time on the local clock of
\* the stored timezone.
C8_FiringFollowsCurrentSettings ==
    [][FireStep =>
          \A j \in jobs' \ jobs :
              Registered(j.data.telegram_id) =>
                  LET telegram_id == j.data.telegram_id
                      settings == get_user_settings(user_settings, telegram_id)
                      hm == parse_hour_minute(time_or_default(settings))
                      clock == local_clock(TimezoneOf(telegram_id), j.next_run_time)
                  IN  clock.hour = hm.hour /\ clock.minute = hm.minute]_vars

\* C11: a firing that starts on a Saturday or Sunday of the user's local
\* calendar (the timezone of the Settings) ends at once, with no message
\* sent, and leaves the registered jobs as they are.
C11_LocalWeekendSendsNothing ==
    [][\A t \in DOMAIN tasks :
          /\ tasks[t].pc = "acquire"
          /\ tasks'[t].pc # "acquire"
          /\ Registered(t[1])
          /\ TimezoneOf(t[1]) # None
          /\ weekday(now + utcoffset(TimezoneOf(t[1]), now)) >= 5
          => /\ tasks'[t].pc = "done"
             /\ tasks'[t].sent = 0
             /\ jobs' = jobs]_vars

\* C12: a firing that finds no account of its user in the store builds no
\* scraper and sends no message, returns without an exception, and leaves the
\* registered jobs and every other coroutine as they were.
C12_AbsentAccountAbortsFiring ==
    [][\A t \in DOMAIN tasks :
          /\ tasks[t].pc = "acquire"
          /\ tasks'[t].pc # "acquire"
          /\ ~Registered(t[1])
          => /\ tasks'[t].pc = "done"
             /\ tasks'[t].outcome = "no_user"
             /\ tasks'[t].scraper = None
             /\ tasks'[t].sent = 0
             /\ jobs' = jobs
             /\ \A other \in DOMAIN tasks' \ {t} :
                    other \in DOMAIN tasks /\ tasks'[other] = tasks[other]]_vars

\* The job of a deleted account has fired and returned with nothing fetched or
\* sent, and the job of another, registered user is still in the queue.
C12_DeletedUserFiringAborted ==
    \E t \in Ended("no_user") :
        /\ ~Registered(t[1])
        /\ tasks[t].scraper = None
        /\ tasks[t].sent = 0
        /\ \E other \in UserIds \ {t[1]} :
               Registered(other) /\ JobsOf(jobs, other) # {}

\* C10: every coroutine that acquired a slot gives it back exactly once, on a
\* normal end, an early return or an exception: the free slots and the
\* coroutines inside the block always add up to 3, so that all 3 slots are
\* free when every coroutine has ended.
C10_SlotsBalance ==
    /\ request_semaphore + Cardinality(Holders) = 3
    /\ (\A t \in DOMAIN tasks : tasks[t].pc = "done") => request_semaphore = 3

\* Every firing of the burst has ended, one normally, one by an early return,
\* one by an exception, and the three slots are free.
C10_AllEndedAllFree ==
    /\ DOMAIN tasks # {}
    /\ \A t \in DOMAIN tasks : tasks[t].pc = "done"
    /\ Ended("sent") # {} /\ Ended("no_user") # {} /\ Ended("error") # {}
    /\ request_semaphore = 3

\* C9: a failure in a firing (the store read, the fetch, a send) is caught
\* inside fetch_and_notify_user: the step in which the firing fails raises
\* nothing, leaves the registered jobs and every other coroutine as they were,
\* and every coroutine started, before or after, runs to its end.
C9_FailureIsContained ==
    /\ [][\A t \in DOMAIN tasks :
              /\ tasks[t].pc # "done"
              /\ tasks'[t].pc = "done"
              /\ tasks'[t].outcome \in {"error", "raised", "no_user"}
              => /\ tasks'[t].outcome # "raised"
                 /\ jobs' = jobs
                 /\ \A other \in DOMAIN tasks' \ {t} :
                        other \in DOMAIN tasks /\ tasks'[other] = tasks[other]]_vars
    /\ \A telegram_id \in BurstIds :
          (<<telegram_id, 1>> \in DOMAIN tasks)
              ~> (<<telegram_id, 1>> \in DOMAIN tasks
                     /\ tasks[<<telegram_id, 1>>].pc = "done")

\* One user's firing has failed, and the firings of two other users have
\* delivered their messages.
C9_OneFailedOthersSent ==
    \E failed \in Ended("error") :
        Cardinality({t \in Ended("sent") : t[1] # failed[1] /\ tasks[t].sent > 0}) >= 2

\* The account's stored time and timezone (or the defaults) can be turned into
\* a fire time.
Resolvable(telegram_id) ==
    LET settings == get_user_settings(user_settings, telegram_id)
    IN  setup_next_run(time_or_default(settings), timezone_or_default(settings), now, 0) # None

RebuildStep == last_call' = [op |-> "setup_scheduler"]

InFlight(t) == t \in DOMAIN tasks /\ tasks[t].pc # "done"

\* The job's next run, read on the clock of the user's zone, is the time set
\* with the jitter second drawn.
CarriesTime(job, settings, notification_time, random_offset_seconds) ==
    LET clock == local_clock(pytz_timezone(timezone_or_default(settings)),
                             job.next_run_time)
        hm == parse_hour_minute(notification_time)
    IN  /\ clock.hour = hm.hour
        /\ clock.minute = hm.minute
        /\ clock.second = random_offset_seconds

\* C14: when reschedule_user_job (or setup_scheduler's removal of the jobs)
\* runs while the user's firing is suspended inside fetch_and_notify_user, the
\* step leaves the coroutine and the semaphore as they were and the user has
\* exactly one job, which carries the new time; no later step of the firing
\* touches the registered jobs; and the firing runs to its end.
C14_RescheduleLeavesFiringAlone ==
    /\ [][jobs' # jobs /\ ~FireStep => UNCHANGED gateVars]_vars
    /\ [][\A t \in DOMAIN tasks :
              InFlight(t) /\ Rescheduled(last_call') /\ last_call'.telegram_id = t[1]
                  /\ Registered(t[1])
              => /\ tasks'[t] = tasks[t]
                 /\ Cardinality(JobsOf(jobs', t[1])) = 1
                 /\ CarriesTime(JobOf(jobs', t[1]),
                                get_user_settings(user_settings', t[1]),
                                last_call'.notification_time,
                                last_call'.random_offset_seconds)]_vars
    /\ [][\A t \in DOMAIN tasks : tasks'[t] # tasks[t] => jobs' = jobs]_vars
    /\ \A firing \in 1 .. MaxFirings :
          (InFlight(<<1, firing>>) /\ Rescheduled(last_call))
              ~> (<<1, firing>> \in DOMAIN tasks /\ tasks[<<1, firing>>].pc = "done")

\* The user's firing is suspended in its sleep or in a send, the user has just
\* set 23:30, and the one job the user has is due at 23:30 local time, while
\* the coroutine still holds the data of the job that fired at 15:00.
C14_RescheduledWhileSuspended ==
    \E t \in DOMAIN tasks :
        /\ tasks[t].pc \in {"sleep", "send"}
        /\ Rescheduled(last_call)
        /\ last_call.telegram_id = t[1]
        /\ last_call.notification_time = T2330
        /\ Cardinality(JobsOf(jobs, t[1])) = 1
        /\ CarriesTime(JobOf(jobs, t[1]), get_user_settings(user_settings, t[1]),
                       T2330, last_call.random_offset_seconds)

\* A handler of a time-entry state has just returned.
TimeEntryStep ==
    /\ last_call' # None
    /\ last_call'.op \in {"set_notification_time", "setup_notification_time_input"}

\* The state in which the ConversationHandler calls the handler
\* (handlers.py 1336 and 1351).
TimeEntryState(op) ==
    IF op = "set_notification_time" THEN SET_NOTIFICATION_TIME
    ELSE SETUP_NOTIFICATION_TIME

\* s is HH:MM with two digits each, 00:00 .. 23:59.
IsHHMM(s) ==
    /\ Len(s) = 5
    /\ s[3] = ":"
    /\ \A i \in {1, 2, 4, 5} : IsDigit(s[i])
    /\ 10 * DigitValue(s[1]) + DigitValue(s[2]) <= 23
    /\ 10 * DigitValue(s[4]) + DigitValue(s[5]) <= 59

\* s is a time of day 0:00 .. 23:59 with the hour in one or two digits and
\* the minute in two.
IsHMM(s) ==
    \/ IsHHMM(s)
    \/ /\ Len(s) = 4
       /\ s[2] = ":"
       /\ \A i \in {1, 3, 4} : IsDigit(s[i])
       /\ 10 * DigitValue(s[3]) + DigitValue(s[4]) <= 59

\* The handler rejected the input: nothing is written, the jobs stay, and the
\* state returned is the state the handler was called in.
Rejected ==
    /\ user_settings' = user_settings
    /\ users' = users
    /\ jobs' = jobs
    /\ last_call'.reply = "Invalid time format!"
    /\ last_call'.returned = TimeEntryState(last_call'.op)

UnknownTimezoneStored(table, telegram_id) ==
    pytz_timezone(timezone_or_default(get_user_settings(table, telegram_id))) = None

\* C16: a timezone identifier that pytz cannot resolve fails closed.  Setting
\* it is refused: the handler does not confirm it and Settings are unchanged.
\* A set_notification_time that meets it in the store reports the scheduling
\* failure and changes neither Settings nor the jobs.
C16_UnknownTimezoneFailsClosed ==
    [][/\ (/\ last_call' # None
            /\ last_call'.op = "button_callback"
            /\ pytz_timezone(last_call'.timezone) = None)
           => /\ user_settings' = user_settings
              /\ last_call'.reply # "Timezone Updated!"
       /\ (/\ Rescheduled(last_call')
            /\ UnknownTimezoneStored(user_settings, last_call'.telegram_id))
           => /\ user_settings' = user_settings
              /\ jobs' = jobs
              /\ last_call'.reply = "Time Updated but Scheduling Failed"]_vars

\* After the step the user has a job whose next run reads the time just set
\* on the clock of the user's stored zone: reschedule_user_job registered it.
NewJobRegistered ==
    LET telegram_id == last_call'.telegram_id
    IN  /\ ~UnknownTimezoneStored(user_settings', telegram_id)
        /\ \E j \in JobsOf(jobs', telegram_id) :
               CarriesTime(j, get_user_settings(user_settings', telegram_id),
                           last_call'.notification_time,
                           last_call'.random_offset_seconds)

\* C17: when reschedule_user_job does not register the new job inside
\* set_notification_time, the user is sent the failure message "Time Updated
\* but Scheduling Failed" and not the confirmation "Notification Time Updated!".
C17_FailedRescheduleIsReported ==
    [][Rescheduled(last_call') /\ ~NewJobRegistered
          => last_call'.reply = "Time Updated but Scheduling Failed"]_vars

\* The call just made is <op> for the user.
Called(op, telegram_id) ==
    /\ last_call' # None
    /\ last_call'.op = op
    /\ last_call'.telegram_id = telegram_id

\* The process has just been started again.
Restarted == last_call' # None /\ last_call'.op = "Database"

\* C18: add_user(id, u, p) followed by get_user(id) gives exactly u and p in
\* plaintext, and every later call on another user, every update of the
\* user's own Settings and every restart of the process leaves what
\* get_user(id) gives unchanged.
C18_AddUserGetUserRoundTrip ==
    [][\A id \in UserIds :
          /\ Called("add_user", id)
             => /\ get_user(users, id)' # None
                /\ get_user(users, id)'.aspen_username = last_call'.aspen_username
                /\ get_user(users, id)'.aspen_password = last_call'.aspen_password
                /\ last_call'.returned
          /\ ~Called("add_user", id) /\ ~Called("delete_user", id)
             => get_user(users, id)' = get_user(users, id)]_vars

\* The process has just been restarted; get_user(1) gives the credentials
\* bob / pw-bob that add_user stored before the restart, and user 2 has an
\* account with other credentials and a Settings row.
C18_ReadBackAfterRestart ==
    /\ last_call # None /\ last_call.op = "Database"
    /\ get_user(users, 1) # None
    /\ get_user(users, 1).aspen_username = "bob"
    /\ get_user(users, 1).aspen_password = "pw-bob"
    /\ get_user(users, 2) # None
    /\ get_user(users, 2).aspen_username # "bob"
    /\ get_user_settings(user_settings, 2) # None

\* The step leaves every account and every other user's Settings as they were.
OnlySettingsOf(telegram_id) ==
    /\ users' = users
    /\ \A other \in UserIds \ {telegram_id} :
           Row(user_settings', other) = Row(user_settings, other)

\* C19: update_user_notification_time(id, t) stores t and leaves the user's
\* stored timezone unchanged (America/Chicago when there was no Settings row);
\* update_user_timezone(id, tz) stores tz and leaves the stored notification
\* time unchanged (15:00 when there was no row); neither changes another
\* user's Settings or any account.
C19_UpdatesKeepTheOtherField ==
    [][\A id \in UserIds :
          LET before == get_user_settings(user_settings, id)
              after == get_user_settings(user_settings', id)
          IN  /\ Called("update_user_notification_time", id)
                 => /\ Cardinality(Row(user_settings', id)) = 1
                    /\ after.notification_time = last_call'.notification_time
                    /\ after.timezone =
                          (IF before = None THEN "America/Chicago" ELSE before.timezone)
                    /\ OnlySettingsOf(id)
              /\ Called("update_user_timezone", id)
                 => /\ Cardinality(Row(user_settings', id)) = 1
                    /\ after.timezone = last_call'.timezone
                    /\ after.notification_time =
                          (IF before = None THEN <<"1", "5", ":", "0", "0">>
                           ELSE before.notification_time)
                    /\ OnlySettingsOf(id)]_vars

\* update_user_timezone(1, "America/New_York") has just been called on a row
\* that held 23:30: the row holds New York and still 23:30, and user 2's row
\* holds other values.
C19_TimezoneChangedTimeKept ==
    /\ last_call # None
    /\ last_call.op = "update_user_timezone"
    /\ last_call.telegram_id = 1
    /\ get_user_settings(user_settings, 1) =
          [telegram_id |-> 1, timezone |-> "America/New_York", notification_time |-> T2330]
    /\ get_user_settings(user_settings, 2) # None
    /\ get_user_settings(user_settings, 2).timezone = "America/Chicago"
    /\ get_user_settings(user_settings, 2).notification_time = T1500

\* C20: delete_user(id) removes the account row and the Settings row of id and
\* leaves every other user's rows unchanged; it returns True exactly when at
\* least one row was removed; afterwards get_user(id) and
\* get_user_settings(id) give None.
C20_DeleteRemovesBothRows ==
    [][\A id \in UserIds :
          Called("delete_user", id)
          => /\ Row(users', id) = {}
             /\ Row(user_settings', id) = {}
             /\ get_user(users, id)' = None
             /\ get_user_settings(user_settings', id) = None
             /\ \A other \in UserIds \ {id} :
                    /\ Row(users', other) = Row(users, other)
                    /\ Row(user_settings', other) = Row(user_settings, other)
             /\ last_call'.returned
                   = (Row(users, id) # {} \/ Row(user_settings, id) # {})]_vars

\* delete_user(1) has just returned True: user 1 has neither account nor
\* Settings, and user 2 has both.
C20_DeletedOneKeptOther ==
    /\ last_call # None
    /\ last_call.op = "delete_user"
    /\ last_call.telegram_id = 1
    /\ last_call.returned
    /\ get_user(users, 1) = None
    /\ get_user_settings(user_settings, 1) = None
    /\ get_user(users, 2) # None
    /\ get_user_settings(user_settings, 2) # None

---------------------------------------------------------------------------
(* Accounts that are deactivated *)

Inactive(table, telegram_id) ==
    \E r \in Row(table, telegram_id) : ~r.is_active

\* C21: after deactivate_user(id) the account is still returned by
\* get_user(id), with the credentials it had, but is excluded from
\* get_all_active_users and from get_user_count, and a setup_scheduler that
\* runs afterwards registers no job for it.
C21_DeactivatedKeptButNotScheduled ==
    [][/\ \A id \in UserIds :
             (Called("deactivate_user", id) /\ last_call'.returned) =>
                 /\ get_user(users, id) # None
                 /\ get_user(users', id) =
                        [get_user(users, id) EXCEPT
                            !.is_active = FALSE, !.last_updated = timestamp(now)]
                 /\ id \notin get_all_active_users(users')
                 /\ get_user_count(users') =
                        Cardinality({r \in users : r.is_active} \ Row(users, id))
       /\ RebuildStep =>
             \A id \in UserIds : Inactive(users, id) => JobsOf(jobs', id) = {}
      ]_vars

\* setup_scheduler has just run over a store with one deactivated account,
\* which get_user still returns, and one active account: the only job is the
\* active account's.
C21_RebuiltWithoutDeactivated ==
    /\ last_call = [op |-> "setup_scheduler"]
    /\ \E id \in UserIds :
          /\ Inactive(users, id)
          /\ get_user(users, id) # None
          /\ JobsOf(jobs, id) = {}
          /\ get_user_count(users) = 1
          /\ \E other \in UserIds \ {id} : JobsOf(jobs, other) # {}

---------------------------------------------------------------------------
(* The encryption key *)

Decrypts(key, row) ==
    /\ decrypt(key, row.aspen_username) # InvalidToken
    /\ decrypt(key, row.aspen_password) # InvalidToken

\* C22: while nothing but the program touches encryption.key, a key that has
\* been written to the file is never replaced; at every start of the process
\* the Database instances of handlers and of scheduler hold the same key, the
\* one in the file, which is the one the file held before the start when
\* there was a file; and every account that decrypted before the start
\* decrypts to the same credentials after it.
C22_KeyGeneratedOnce ==
    [][/\ key_file # NoString => key_file' = key_file
       /\ Restarted =>
             /\ last_call'.handlers_key = last_call'.scheduler_key
             /\ encryption_key' = key_file'
             /\ key_file # NoString => encryption_key' = key_file
             /\ \A r \in users : Decrypts(encryption_key, r) =>
                    /\ r \in users'
                    /\ decrypt(encryption_key', r.aspen_username) =
                           decrypt(encryption_key, r.aspen_username)
                    /\ decrypt(encryption_key', r.aspen_password) =
                           decrypt(encryption_key, r.aspen_password)
      ]_vars

\* The process has been started over the key file and the accounts an
\* earlier process left, and reads both accounts.
C22_StartedAgainOverStoredAccounts ==
    /\ last_call # None /\ last_call.op = "Database"
    /\ last_call.handlers_key = key_file
    /\ \A id \in UserIds : get_user(users, id) # None
    /\ \E id \in UserIds : get_user(users, id).aspen_username = "bob"

\* C23: key rotation is never attempted silently: a start that finds no key
\* file while the store holds encrypted accounts does not go on with a new
\* key under which those accounts cannot be decrypted.
C23_NoSilentKeyRotation ==
    [][(Restarted /\ key_file = NoString) =>
          \A r \in users : Decrypts(encryption_key, r) => Decrypts(encryption_key', r)
      ]_vars

\* C24: a decryption failure in get_user or get_all_active_users can be told
\* from the ordinary results: get_user does not give for an account whose
\* ciphertext fails to decrypt what it gives for an absent account, and
\* get_all_active_users does not give the empty list when active accounts are
\* stored and one of them fails to decrypt.
C24_DecryptionFailureIsSurfaced ==
    /\ \A id \in UserIds :
          (\E r \in Row(users, id) : ~Decrypts(encryption_key, r)) =>
              get_user(users, id) # get_user({}, id)
    /\ (\E r \in users : r.is_active /\ ~Decrypts(encryption_key, r)) =>
          get_all_active_users(users) # get_all_active_users({})

---------------------------------------------------------------------------
(* The timestamps of an account *)

\* C25: add_user on a new id stores the account with created_at and
\* last_updated set to the time of the call; add_user on an existing id
\* replaces the credentials and last_updated and leaves the account's
\* created_at and is_active as they were; either leaves every other account
\* unchanged.
C25_AddUserFrame ==
    [][\A id \in UserIds : Called("add_user", id) =>
          /\ \E new \in users' :
                /\ Row(users', id) = {new}
                /\ decrypt(encryption_key, new.aspen_username) = last_call'.aspen_username
                /\ decrypt(encryption_key, new.aspen_password) = last_call'.aspen_password
                /\ new.last_updated = timestamp(now)
                /\ IF Row(users, id) = {}
                   THEN new.created_at = timestamp(now) /\ new.is_active
                   ELSE \A old \in Row(users, id) :
                           /\ new.created_at = old.created_at
                           /\ new.is_active = old.is_active
          /\ \A other \in UserIds \ {id} : Row(users', other) = Row(users, other)
      ]_vars

\* add_user has just replaced the credentials of a deactivated account stored
\* earlier: it is still inactive, created when it was and updated now, and the
\* other account is in the store.
C25_CredentialsReplacedLater ==
    /\ last_call # None /\ last_call.op = "add_user"
    /\ \E r \in Row(users, last_call.telegram_id) :
          /\ ~r.is_active
          /\ r.created_at = timestamp(Installed)
          /\ r.last_updated = timestamp(Fri1502)
          /\ decrypt(encryption_key, r.aspen_username) = "bob"
    /\ \E other \in UserIds \ {last_call.telegram_id} : Row(users, other) # {}

---------------------------------------------------------------------------
(* The messages of a firing *)

\* The coroutine t has fetched the grades in this step and goes on to send.
StartsSending(t) == tasks[t].pc = "sleep" /\ tasks'[t].pc = "send"

DelayNotices(messages) ==
    {k \in 1..Len(messages) : messages[k].text = "Delay Notice"}

\* C26: for every firing that sends messages, the delay in minutes is the
\* time from the instant the job was due to the instant the coroutine reads
\* the clock, divided by 60 s and rounded down, 0 when negative; exactly one
\* Delay Notice, naming that delay, is among the messages to send when it is
\* positive, and none when it is 0.
C26_DelayNoticeWhenLate ==
    [][\A t \in DOMAIN tasks : StartsSending(t) =>
          LET scheduled == tasks[t].due.scheduled_time
              delayMinutes == IF now > scheduled THEN (now - scheduled) \div MINUTE ELSE 0
              notices == DelayNotices(tasks'[t].messages)
          IN  /\ Cardinality(notices) = IF delayMinutes > 0 THEN 1 ELSE 0
              /\ \A k \in notices : tasks'[t].messages[k].part = delayMinutes
      ]_vars

\* The messages GradeSource returned come first and in its order, a Delay
\* Notice comes after all of them.
InSequenceOrder(texts) ==
    \A k \in 1..Len(texts) :
        IF texts[k].text = "Delay Notice"
        THEN k = Len(texts)
        ELSE texts[k].part = k

\* C27: in a firing the messages GradeSource returned are sent to the id of
\* the firing's user, each once and in sequence order, and the Delay Notice,
\* if there is one, after all of them; no send_message of the firing has
\* another chat_id; a firing that ends without an error has sent them all.
C27_MessagesInOrderToTheUser ==
    [][\A t \in DOMAIN tasks' :
          LET outbox == tasks'[t].outbox
          IN  /\ \A k \in 1..Len(outbox) :
                    /\ outbox[k].chat_id = t[1]
                    /\ outbox[k].chat_id = tasks'[t].data.telegram_id
              /\ InSequenceOrder([k \in 1..Len(outbox) |-> outbox[k].text])
              /\ (t \in DOMAIN tasks /\ StartsSending(t)) =>
                    InSequenceOrder(tasks'[t].messages)
              /\ (t \in DOMAIN tasks /\ tasks[t].pc = "send") =>
                    /\ \A k \in 1..Len(outbox) : outbox[k].text = tasks[t].messages[k]
                    /\ tasks'[t].outcome = "sent" => Len(outbox) = Len(tasks[t].messages)
      ]_vars

\* Two firings, one of each user, have ended after two messages each, every
\* one sent to the firing's own user.
C27_BothUsersGotTheirMessages ==
    \A id \in UserIds : \E t \in Ended("sent") :
        /\ t[1] = id
        /\ Len(tasks[t].outbox) = MaxMessages
        /\ \A k \in 1..MaxMessages :
               tasks[t].outbox[k] =
                  [chat_id |-> id, text |-> fetch_formatted_grades(MaxMessages)[k]]

---------------------------------------------------------------------------
(* A firing that fails *)

Fails(t) == tasks[t].pc # "done" /\ tasks'[t].pc = "done" /\ tasks'[t].outcome = "error"

\* C28: no automatic retry.  A coroutine that has left its sleep, where
\* GradeSource is called, never sleeps again, and one that has ended stays as
\* it ended.  The step in which a firing fails starts no coroutine and leaves
\* every job as it was, the user's own with its next run.  A coroutine is
\* started only for a job that is due, and the job's next run is then its
\* first occurrence after now, at the same time of day.
C28_NoAutomaticRetry ==
    [][/\ \A t \in DOMAIN tasks :
             /\ t \in DOMAIN tasks'
             /\ (tasks[t].pc = "sleep" /\ tasks'[t] # tasks[t]) =>
                    tasks'[t].pc \in {"send", "done"}
             /\ tasks[t].pc = "send" => tasks'[t].pc \in {"send", "done"}
             /\ tasks[t].pc = "done" => tasks'[t] = tasks[t]
             /\ Fails(t) => (jobs' = jobs /\ DOMAIN tasks' = DOMAIN tasks)
       /\ \A t \in DOMAIN tasks' \ DOMAIN tasks :
             /\ tasks'[t].pc = "acquire"
             /\ \E j \in JobsOf(jobs, t[1]) :
                    /\ now >= j.next_run_time
                    /\ \E rearmed \in JobsOf(jobs', t[1]) :
                           /\ rearmed.next_run_time > now
                           /\ rearmed.next_run_time - DAY <= now
                           /\ (rearmed.next_run_time - j.next_run_time) % DAY = 0
      ]_vars

\* The user's firing of Thursday failed after GradeSource was called; the job
\* stayed registered and has fired again on Friday at 15:00.
C28_FailedThenFiredNextDay ==
    \E id \in UserIds :
        /\ <<id, 1>> \in Ended("error")
        /\ tasks[<<id, 1>>].scraper # None
        /\ <<id, 2>> \in DOMAIN tasks
        /\ now = Fri1500
        /\ \E j \in JobsOf(jobs, id) : j.next_run_time = Fri1500 + DAY

---------------------------------------------------------------------------
(* Timestamps of older versions *)

\* C29: once init_database has run, no account has a created_at or a
\* last_updated that is NULL, empty or the value 1, whatever add_user,
\* update_user_notification_method, deactivate_user or another init_database
\* ran since.
C29_TimestampsNormalised ==
    \A r \in users :
        /\ r.created_at \notin LegacyTimestamps
        /\ r.last_updated \notin LegacyTimestamps

---------------------------------------------------------------------------
(* Statements of two connections interleaved *)

\* Connection c has executed a statement in this step.
Executed(c) ==
    /\ c \in DOMAIN connections
    /\ c \in DOMAIN connections' => connections'[c] # connections[c]

\* The username and the password of the row are those of one add_user call.
Complete(key, row) ==
    \E cred \in Credentials :
        /\ decrypt(key, row.aspen_username) = cred.username
        /\ decrypt(key, row.aspen_password) = cred.password

Returned(op) == last_call' # None /\ last_call'.op = op

\* C30: with the statements of two methods of Database interleaved in any
\* way, a statement executed for one user leaves the Account and the Settings
\* of every other user as they were; every Account in the store has the
\* username and the password of one and the same add_user call at every
\* instant, so that a get_user under way next to an add_user of the same user
\* returns the whole old or the whole new Account; and a get_user_settings
\* returns a whole row of the table, or None.
C30_StatementsDoNotInterfere ==
    [][/\ \A c \in ConnectionIds : Executed(c) =>
             \A other \in UserIds \ {connections[c].call.telegram_id} :
                 /\ Row(users', other) = Row(users, other)
                 /\ Row(user_settings', other) = Row(user_settings, other)
       /\ \A r \in users' : Complete(encryption_key, r)
       /\ Returned("get_user") =>
             /\ last_call'.returned = get_user(users', last_call'.telegram_id)
             /\ last_call'.returned # None =>
                    \E cred \in Credentials :
                        /\ last_call'.returned.aspen_username = cred.username
                        /\ last_call'.returned.aspen_password = cred.password
       /\ Returned("get_user_settings") =>
             \/ last_call'.returned \in user_settings'
             \/ last_call'.returned = None /\ Row(user_settings', last_call'.telegram_id) = {}
      ]_vars

\* get_user(1) has returned the old Account, whole, on one connection while
\* add_user(1), on the other, has found the row and not yet executed its
\* UPDATE; user 2 has an Account.
C30_ReadBetweenStatementsOfWrite ==
    /\ last_call # None /\ last_call.op = "get_user" /\ last_call.telegram_id = 1
    /\ last_call.returned # None
    /\ last_call.returned.aspen_username = "alice"
    /\ last_call.returned.aspen_password = "pw-alice"
    /\ \E c \in DOMAIN connections :
          /\ connections[c].call.op = "add_user"
          /\ connections[c].call.telegram_id = 1
          /\ connections[c].pc = 1
    /\ Row(users, 2) # {}

---------------------------------------------------------------------------
(* The replacement of a job *)

\* C31: reschedule_user_job replaces a user's job atomically: in no state
\* that another coroutine can see is a registered user who had a job, and
\* whose time has just been set, without a job, also when registering the
\* new job has failed.
C31_RescheduleReplacesAtomically ==
    [][\A id \in UserIds :
          (/\ Called("set_notification_time", id)
           /\ last_call'.returned = END
           /\ Registered(id)
           /\ JobsOf(jobs, id) # {}) =>
              Cardinality(JobsOf(jobs', id)) = 1
      ]_vars

---------------------------------------------------------------------------
(* The order within a firing *)

Sleeping(t) == t \in DOMAIN tasks /\ tasks[t].pc = "sleep"

\* The step in which the coroutine of t builds the scraper and calls
\* GradeSource.
CallsGradeSource(t) ==
    /\ t \in DOMAIN tasks
    /\ tasks[t].scraper = None
    /\ tasks'[t].scraper # None

\* The step in which the firing of t ends skipped: the account is absent or
\* the day is Saturday or Sunday.
Skipped(t) ==
    /\ t \in DOMAIN tasks
    /\ tasks[t].pc # "done"
    /\ tasks'[t].pc = "done"
    /\ tasks'[t].outcome \in {"no_user", "weekend"}

\* C32: within a firing the slot is acquired first, then the coroutine waits
\* the delay drawn between 30 and 60 seconds, then GradeSource is called: a
\* coroutine enters the sleep only in the step that takes a slot, it holds
\* the slot in every state in which it sleeps, and it calls GradeSource only
\* out of the sleep, at least 30 seconds after the sleep began and with a
\* delay of at most 60 seconds asked for.  A firing skipped for an absent
\* account or for the weekend ends in the step that took the slot, gives the
\* slot back, has not slept and has no scraper.
C32_SlotThenDelayThenFetch ==
    [][\A t \in DOMAIN tasks :
          /\ (~Sleeping(t) /\ Sleeping(t)') =>
                 /\ tasks[t].pc = "acquire"
                 /\ request_semaphore' = request_semaphore - 1
                 /\ tasks'[t].sleep.delay \in REQUEST_DELAY_MIN..REQUEST_DELAY_MAX
                 /\ tasks'[t].sleep.since = now
          /\ Sleeping(t) =>
                 /\ request_semaphore =
                        MAX_CONCURRENT_REQUESTS - Cardinality(Holders)
                 /\ t \in Holders
                 /\ tasks[t].scraper = None
          /\ CallsGradeSource(t) =>
                 /\ Sleeping(t)
                 /\ now >= tasks[t].sleep.since + REQUEST_DELAY_MIN
                 /\ now >= tasks[t].sleep.since + tasks[t].sleep.delay
          /\ Skipped(t) =>
                 /\ tasks[t].pc = "acquire"
                 /\ tasks'[t].scraper = None
                 /\ tasks'[t].sleep = None
                 /\ UNCHANGED request_semaphore
      ]_vars

\* Both firings of Thursday slept with their slots held, one for 30 and one
\* for 60 seconds; the first has called GradeSource, the second sleeps on.
C32_FetchedAfterTheDelay ==
    /\ now = Thu150030
    /\ <<1, 1>> \in DOMAIN tasks /\ <<2, 1>> \in DOMAIN tasks
    /\ tasks[<<1, 1>>].scraper # None
    /\ Sleeping(<<2, 1>>)
    /\ tasks[<<2, 1>>].sleep.delay = REQUEST_DELAY_MAX
    /\ request_semaphore <= MAX_CONCURRENT_REQUESTS - 1

---------------------------------------------------------------------------
(* The two scheduling paths *)

\* What setup_scheduler and reschedule_user_job hand to run_daily, or None
\* from both.
SameRun(setup, reschedule) ==
    IF setup = None \/ reschedule = None THEN setup = reschedule
    ELSE /\ setup.job_time_utc = reschedule.job_time
         /\ setup.scheduled_utc = reschedule.scheduled_utc

\* The job has the daily time and the first run of <run>.
RunsAt(job, time, scheduled_utc) ==
    job.time = time /\ job.next_run_time = scheduled_utc

\* C33: for the same local HH:MM, timezone, now and jitter second the
\* computation of setup_scheduler and that of reschedule_user_job give the
\* same fire instant and the same daily UTC time of day, or fail alike; the
\* job reschedule_user_job registers is the one setup_scheduler would
\* compute from the stored settings, and each job setup_scheduler registers
\* is one reschedule_user_job would compute.
C33_SameFireTimeOnBothPaths ==
    /\ [](\A t \in PathInputs, z \in ZoneInputs, s \in Jitters :
             SameRun(setup_next_run(t, z, now, s), reschedule_next_run(t, z, now, s)))
    /\ [][/\ Rescheduled(last_call') /\ jobs' # jobs =>
               LET id == last_call'.telegram_id
                   settings == get_user_settings(user_settings', id)
                   run == setup_next_run(time_or_default(settings),
                                         timezone_or_default(settings), now,
                                         last_call'.random_offset_seconds)
               IN  /\ run # None
                   /\ \A j \in JobsOf(jobs', id) :
                          RunsAt(j, run.job_time_utc, run.scheduled_utc)
          /\ RebuildStep =>
               \A j \in jobs' :
                   LET settings == get_user_settings(user_settings, j.data.telegram_id)
                   IN  \E s \in 0..RANDOM_OFFSET_MAX :
                          LET run == reschedule_next_run(time_or_default(settings),
                                         timezone_or_default(settings), now, s)
                          IN  run # None /\ RunsAt(j, run.job_time, run.scheduled_utc)
       ]_vars

\* On the eve of the change to daylight time, at 23:50, the user sets 23:30:
\* reschedule_user_job has registered the job for the next evening, at the
\* instant and the UTC time of day setup_scheduler computes.
C33_RescheduledAsSetupWould ==
    /\ now = Sat2350
    /\ Rescheduled(last_call)
    /\ last_call.notification_time = T2330
    /\ last_call.random_offset_seconds = 12
    /\ JobsOf(jobs, 1) # {}
    /\ LET run == setup_next_run(T2330, timezone_or_default(get_user_settings(user_settings, 1)), now, 12)
       IN  /\ RunsAt(JobOf(jobs, 1), run.job_time_utc, run.scheduled_utc)
           /\ run.scheduled_utc > Sat2350 + 23 * HOUR

---------------------------------------------------------------------------
(* Jobs are found by name *)

\* C34: jobs are looked up and removed under the name grade_check_user_<id>.
\* Every registered job carries the name of the user of its data.  A
\* reschedule_user_job for user A removes only jobs of A's name and adds only
\* a job of A's name: the jobs of every other user are the same job objects
\* afterwards.  When A, registered and with a timezone that resolves, has no
\* job, nothing is removed, the handler reports no failure and A's new job is
\* registered.
C34_OnlyTheNamedJobIsTouched ==
    /\ [](\A j \in jobs : j.name = job_name_of(j.data.telegram_id))
    /\ [][Rescheduled(last_call') =>
             LET A == last_call'.telegram_id
             IN  /\ \A j \in jobs \ jobs' : j.name = job_name_of(A)
                 /\ \A j \in jobs' \ jobs : j.name = job_name_of(A)
                 /\ \A B \in UserIds \ {A} : JobsOf(jobs', B) = JobsOf(jobs, B)
                 /\ (JobsOf(jobs, A) = {} /\ Registered(A) /\ TimezoneOf(A) # None) =>
                        /\ jobs \subseteq jobs'
                        /\ Cardinality(JobsOf(jobs', A)) = 1
                        /\ last_call'.reply = "Notification Time Updated!"
       ]_vars

\* User 2 has set a time: the job reschedule_user_job registered for user 2
\* stands beside the job of user 1, and the two are all the jobs there are.
C34_NewJobBesideTheOther ==
    /\ Rescheduled(last_call)
    /\ last_call.telegram_id = 2
    /\ ~last_call.repeated
    /\ \E j1 \in JobsOf(jobs, 1), j2 \in JobsOf(jobs, 2) :
           /\ j1.id = 1
           /\ j2.id = 2
           /\ jobs = {j1, j2}

---------------------------------------------------------------------------
(* init_database run again *)

\* C35: init_database is idempotent.  Whatever users.db the process found,
\* once Database() has run init_database, running it again raises nothing
\* and changes neither the tables and their columns nor any row of users or
\* user_settings: so for the second Database() of a start, and so for every
\* start of the process over a store a Database() of an earlier start left.
C35_InitDatabaseIdempotent ==
    [][Restarted =>
          /\ last_call'.raised = None
          /\ init_database_schema(schema') = [schema |-> schema', raised |-> None]
          /\ init_database(users', now) = users'
          /\ init_database_settings(user_settings') = user_settings'
          /\ schema' = SCHEMA
          /\ Running => UNCHANGED <<schema, users, user_settings>>
      ]_vars

\* The process has been started again over the store it had initialised and
\* written to: the account of user 1 with the timestamps of the first start,
\* the account of user 2 and the settings of user 1 are in it.
C35_StartedAgainOverInitialisedStore ==
    /\ last_call # None /\ last_call.op = "Database"
    /\ now > Fri1410
    /\ schema = SCHEMA
    /\ conversations = NoConversations
    /\ \E r \in users : r.telegram_id = 1 /\ r.created_at = timestamp(Fri1410)
    /\ \E r \in users : r.telegram_id = 2
    /\ \E r \in user_settings : r.telegram_id = 1 /\ r.notification_time = T0905

---------------------------------------------------------------------------
(* One user's failure in setup_scheduler *)

\* C36: when setup_scheduler cannot build the job of some active account
\* (its stored timezone or time does not resolve), the call still completes
\* (the scheduler is started), that account has no job, and every other
\* active account, before it or after it in the loop, has exactly one job,
\* under its own name and with its own data.
C36_SetupFailureConfinedToOneUser ==
    [][RebuildStep /\ (\E bad \in get_all_active_users(users) : ~Resolvable(bad)) =>
          /\ started'
          /\ \A id \in get_all_active_users(users) :
                 IF Resolvable(id)
                 THEN /\ Cardinality(JobsOf(jobs', id)) = 1
                      /\ JobOf(jobs', id).data.telegram_id = id
                      /\ JobOf(jobs', id).next_run_time > now
                 ELSE JobsOf(jobs', id) = {}
      ]_vars

\* setup_scheduler has run with user 1, first in the loop, on a timezone pytz
\* does not know: user 1 has no job and user 2 has one.
C36_SecondUserScheduledAfterFailure ==
    /\ last_call = [op |-> "setup_scheduler"]
    /\ started
    /\ UnknownTimezoneStored(user_settings, 1)
    /\ ~UnknownTimezoneStored(user_settings, 2)
    /\ 2 \in get_all_active_users(users)
    /\ JobsOf(jobs, 1) = {}
    /\ Cardinality(JobsOf(jobs, 2)) = 1

---------------------------------------------------------------------------
(* Liveness of the gate *)

Waiting(t) == t \in DOMAIN tasks /\ tasks[t].pc = "acquire"
Inside(t) == t \in DOMAIN tasks /\ Holding(t)
Over(t) == t \in DOMAIN tasks /\ tasks[t].pc = "done"

\* C37: with more firings at once than there are slots, and every sleep,
\* fetch and send coming to an end, a firing that waits for a slot gets one
\* (it leaves the wait), a firing inside the block comes to its end and is
\* no longer a holder, and when at last no firing is under way all 3 slots
\* are free; while firings wait, either a slot is free or some firing is
\* inside the block and will give its slot back.
C37_EveryFiringGetsASlotAndEnds ==
    /\ \A id \in BurstIds :
          /\ Waiting(<<id, 1>>) ~> ~Waiting(<<id, 1>>)
          /\ Inside(<<id, 1>>) ~> Over(<<id, 1>>)
          /\ (<<id, 1>> \in DOMAIN tasks) ~> Over(<<id, 1>>)
    /\ [](\A t \in DOMAIN tasks :
             Waiting(t) => ~locked(request_semaphore) \/ Holders # {})
    /\ (DOMAIN tasks # {})
          ~> (Holders = {} /\ request_semaphore = MAX_CONCURRENT_REQUESTS
                 /\ \A t \in DOMAIN tasks : Over(t))

\* The firings of all MaxBurst users are under way: three are inside the
\* block, one of them sending, no slot is free, and the firing of the last
\* user waits.
C37_LastFiringWaitsForASlot ==
    /\ Cardinality(DOMAIN tasks) = MaxBurst
    /\ locked(request_semaphore)
    /\ Waiting(<<MaxBurst, 1>>)
    /\ \A id \in BurstIds \ {MaxBurst} : Inside(<<id, 1>>)
    /\ \E id \in BurstIds : tasks[<<id, 1>>].pc = "send"

---------------------------------------------------------------------------
(* A reschedule that cannot compute the new run *)

\* C38: reschedule_user_job computes the new run before it removes anything.
\* When set_notification_time reaches it for a user whose account is not in
\* the store, or whose stored timezone (with the time just stored) cannot be
\* turned into a run, the registered jobs are exactly the job objects of
\* before: the user's job, if there is one, stays with its old time and no
\* job is added.
C38_FailedRescheduleKeepsTheJob ==
    [][\A id \in UserIds :
          (/\ Rescheduled(last_call')
           /\ last_call'.telegram_id = id
           /\ \/ ~Registered(id)
              \/ reschedule_next_run(last_call'.notification_time,
                     timezone_or_default(get_user_settings(user_settings', id)),
                     now, last_call'.random_offset_seconds) = None)
          => /\ jobs' = jobs
             /\ JobsOf(jobs', id) = JobsOf(jobs, id)
      ]_vars

\* The user, whose job was registered for 15:00 in Chicago, has stored a
\* timezone pytz does not know and then set 9:05: the job is still the one
\* for 15:00 in Chicago.
C38_OldJobKeptAfterFailure ==
    /\ Rescheduled(last_call)
    /\ last_call.telegram_id = 1
    /\ last_call.notification_time = T0905
    /\ Registered(1)
    /\ UnknownTimezoneStored(user_settings, 1)
    /\ Cardinality(JobsOf(jobs, 1)) = 1
    /\ JobOf(jobs, 1).time = [hour |-> 21, minute |-> 0, second |-> 0]

---------------------------------------------------------------------------
(* Settings and registered jobs *)

\* C39: in every state, which is a state with no handler under way, the job
\* registered for a user with an account runs next at the notification time
\* of the user's Settings on the local clock of the timezone of the Settings,
\* with a second of 0..30, whatever time changes, timezone changes and
\* setup-flow inputs came before.
C39_JobsFollowSettings ==
    \A id \in UserIds :
        (Registered(id) /\ TimezoneOf(id) # None) =>
            \A j \in JobsOf(jobs, id) :
                LET settings == get_user_settings(user_settings, id)
                    hm == parse_hour_minute(time_or_default(settings))
                    clock == local_clock(TimezoneOf(id), j.next_run_time)
                IN  /\ clock.hour = hm.hour
                    /\ clock.minute = hm.minute
                    /\ clock.second \in 0..RANDOM_OFFSET_MAX

---------------------------------------------------------------------------
(* The conversation of /register *)

\* C40: the conversation of /register never overwrites an account.  For a
\* user with a row in the table users, /register ends the conversation at
\* once, without asking for the username and without a write to the store.
\* add_user is called by register_password only, in the state
\* REGISTER_PASSWORD, for a user with no row, with the username and the
\* password the conversation collected, and the conversation ends with it.
C40_RegisterNeverOverwrites ==
    [][\A id \in UserIds :
          /\ (Called("register", id) /\ Row(users, id) # {}) =>
                 /\ last_call'.returned = END
                 /\ conversations'[id].state = END
                 /\ UNCHANGED <<users, user_settings>>
          /\ Called("register", id) \/ Called("register_username", id) =>
                 UNCHANGED <<users, user_settings>>
          /\ Called("register_password", id) =>
                 /\ Row(users, id) = {}
                 /\ conversations[id].state = REGISTER_PASSWORD
                 /\ last_call'.aspen_username = conversations[id].user_data.aspen_username
                 /\ get_user(users, id)' # None
                 /\ get_user(users, id)'.aspen_username = last_call'.aspen_username
                 /\ get_user(users, id)'.aspen_password = last_call'.aspen_password
                 /\ conversations'[id].state = END
      ]_vars

====
